---- MODULE Spec2Model ----
(***************************************************************************)
(* "Nossa Constelacao de Momentos": a React client over Firebase Auth and  *)
(* Firestore.  The model follows src/src/App.js (the complete program      *)
(* starts at line 173; lines 1-171 are a truncated earlier copy).          *)
(*                                                                         *)
(* State: the AuthWrapper session, the AppContent view selection, the      *)
(* state of the one mounted content view (JourneyMoments, OurJournal or    *)
(* OurPurpose), the three Firestore paths, the write calls in flight, the  *)
(* open onSnapshot listeners, and lastOp, a record of the handler that ran *)
(* last and of what it was given.                                          *)
(*                                                                         *)
(* One action is one handler or callback run to its end, together with     *)
(* the render and the effects React runs after it.  Named handlers are     *)
(* modelled at the handler boundary (they can be invoked whenever their    *)
(* component is mounted); inline onChange handlers exist only as part of a *)
(* rendered, enabled control and carry that control's conditions.          *)
(***************************************************************************)
EXTENDS Integers, Sequences, FiniteSets, Bags, TLC

\* ------------------------------------------------------------------ bounds
\* Handler and callback runs in one behaviour: every counter and collection
\* of the model (server clock, calls in flight, documents) is bounded by it.
MaxSteps == 8

\* ------------------------------------------------------------------ values
\* null, for a user id or an error message
Null == "null"
\* null, for a document id (useState(null) of the editing id); ids start at 1
NoId == 0
\* localStorage.getItem of a key that was never set
NoItem == <<"null">>
\* the serverTimestamp() placeholder a client sends; server times start at 1
ServerTimestamp == 0
TimestampFields == {"date", "lastUpdated"}

Users == {"u1", "u2"}

\* Text is a sequence of one-character strings; " " is whitespace.
IsSpace(ch) == ch = " "

RECURSIVE TrimStart(_)
TrimStart(s) ==
  IF s = <<>> THEN <<>>
  ELSE IF IsSpace(Head(s)) THEN TrimStart(Tail(s))
  ELSE s

RECURSIVE TrimEnd(_)
TrimEnd(s) ==
  IF s = <<>> THEN <<>>
  ELSE IF IsSpace(s[Len(s)]) THEN TrimEnd(SubSeq(s, 1, Len(s) - 1))
  ELSE s

\* String.prototype.trim
TrimIdentity(s) == s
Trim(s) == TrimEnd(TrimStart(s))

\* What the user types into the forms, <select> values included.
NewMomentInputs ==
  {[title |-> <<" ">>, description |-> <<>>, type |-> "star"],
   [title |-> <<" ", "a">>, description |-> <<"d", " ">>, type |-> "cloud"]}
EditMomentInputs ==
  {[title |-> <<" ">>, description |-> <<"d">>, type |-> "cloud"],
   [title |-> <<"b", " ">>, description |-> <<>>, type |-> "milestone"]}
NewEntryInputs == {<<>>, <<" ">>, <<" ", "a">>}
EditEntryInputs == {<<" ">>, <<"b", " ">>}
PurposeInputs == {<<>>, <<" ", "p">>}
NameInputs == {<<" ">>, <<" ", "n">>}

Anonimo == <<"A", "n", "o", "n", "i", "m", "o">>

ErrLoadMoments == "Erro ao carregar momentos. Verifique suas permissoes."
ErrAddMoment == "Erro ao adicionar momento. Tente novamente."
ErrUpdateMoment == "Erro ao atualizar momento. Verifique suas permissoes ou se voce e o criador."
ErrDeleteMomentDenied == "Voce nao tem permissao para excluir este momento."
ErrDeleteMoment == "Erro ao excluir momento. Verifique suas permissoes."
ErrLoadJournal == "Erro ao carregar diario. Verifique suas permissoes."
ErrAddEntry == "Erro ao adicionar registro. Tente novamente."
ErrUpdateEntry == "Erro ao atualizar registro. Verifique suas permissoes ou se voce e o criador."
ErrDeleteEntryDenied == "Voce nao tem permissao para excluir este registro."
ErrDeleteEntry == "Erro ao excluir registro. Verifique suas permissoes."
ErrLoadPurpose == "Erro ao carregar proposito. Verifique suas permissoes."
ErrUpdatePurpose == "Erro ao atualizar proposito. Tente novamente."

VARIABLES
  \* AuthWrapper
  userId, userName, isAuthenticated, loadingAuth, showNameModal,
  localStorage,        \* user -> the item user_name_<user>, or NoItem
  signIn,              \* authenticate(): "pending", "done"
  listenerFired,       \* onAuthStateChanged has called back at least once
  \* AppContent
  view,
  \* the mounted content view
  loading, error, isSubmitting,
  moments, newMomentTitle, newMomentDescription, newMomentType,
  editingMomentId, editMomentTitle, editMomentDescription, editMomentType,
  entries, newEntryText, editingEntryId, editEntryText,
  purposeText,
  \* Firestore
  journey_moments, journal_entries, our_purpose, serverClock,
  pending,             \* write calls in flight
  subs,                \* open onSnapshot listeners
  lastOp,
  steps                \* handler and callback runs so far

session == <<userId, userName, isAuthenticated, loadingAuth, showNameModal,
             localStorage, signIn, listenerFired>>
momentsForm == <<newMomentTitle, newMomentDescription, newMomentType>>
momentsEdit == <<editingMomentId, editMomentTitle, editMomentDescription,
                 editMomentType>>
journalView == <<entries, newEntryText, editingEntryId, editEntryText>>
momentsView == <<moments, momentsForm, momentsEdit>>
store == <<journey_moments, journal_entries, our_purpose, serverClock>>
vars == <<session, view, loading, error, isSubmitting, momentsView,
          journalView, purposeText, store, pending, subs, lastOp>>
allvars == <<vars, steps>>

\* const db = getFirestore(app): the store handle always exists.
db == TRUE

\* ------------------------------------------------------------- Firestore
\* A stored document is [id |-> its id, data |-> its fields].

RECURSIVE OrderByDateDesc(_)
\* query(ref, orderBy('date', 'desc')): the documents, newest first
OrderByDateDesc(docs) ==
  IF docs = {} THEN <<>>
  ELSE LET newest == CHOOSE d \in docs :
                       \A e \in docs : e.data.date <= d.data.date
       IN <<newest>> \o OrderByDateDesc(docs \ {newest})

\* The server resolves the serverTimestamp() placeholders of a write.
Stamp(fields, now) ==
  [f \in DOMAIN fields |->
     IF f \in TimestampFields /\ fields[f] = ServerTimestamp
       THEN now ELSE fields[f]]

\* addDoc: a new document under a fresh id
StoreAddDoc(docs, fields, now) ==
  docs \cup {[id |-> now, data |-> Stamp(fields, now)]}

DocExists(docs, id) == \E d \in docs : d.id = id

\* the document id of docs holds every given field with the given value
Holds(docs, id, fields) ==
  \E d \in docs :
    /\ d.id = id
    /\ \A f \in DOMAIN fields : f \in DOMAIN d.data /\ d.data[f] = fields[f]

\* Partial write: the given fields change, the others keep their value.
MergeReplacing(data, fields) == fields
Merge(data, fields) ==
  [f \in DOMAIN data \cup DOMAIN fields |->
     IF f \in DOMAIN fields THEN fields[f] ELSE data[f]]

\* updateDoc
StoreUpdateDoc(docs, id, fields) ==
  {IF d.id = id THEN [d EXCEPT !.data = Merge(d.data, fields)] ELSE d :
     d \in docs}

\* deleteDoc
StoreDeleteDoc(docs, id) == {d \in docs : d.id # id}

\* setDoc(ref, fields, { merge: true }) on the one document of a path
StoreSetDocMerge(docs, id, fields, now) ==
  IF docs = {} THEN {[id |-> id, data |-> Stamp(fields, now)]}
  ELSE {[d EXCEPT !.data = Merge(d.data, Stamp(fields, now))] : d \in docs}

\* await deleteDoc(ref): the collection after a call that succeeded (ok) or
\* was rejected
DeleteDocRemovesAnyway(docs, id, ok) == StoreDeleteDoc(docs, id)
DeleteDocOutcome(docs, id, ok) ==
  IF ok THEN StoreDeleteDoc(docs, id) ELSE docs

\* A write call in flight.  live: the component that issued it is mounted.
Call(kind, by, id, fields) ==
  [kind |-> kind, by |-> by, id |-> id, fields |-> fields, live |-> TRUE]

\* Calls in flight that were issued by handler `by`.
CallsBy(by) == {c \in BagToSet(pending) : c.by = by}

Issue(calls, c) == calls (+) SetToBag({c})
Settle(calls, c) == calls (-) SetToBag({c})

\* --------------------------------------------------- the binder's effect
\* useEffect(..., [db, isAuthenticated]) of each content view.

\* The guard that lets the effect subscribe: !( !db || !isAuthenticated ).
BinderActiveNoAuth(auth) == db
BinderActive(auth) == db /\ auth

\* const unsubscribe = onSnapshot(...): the listener the effect opens.
Subscription(v) == [path |-> v, active |-> TRUE, mounted |-> TRUE]

EffectSubscribe(v, auth) ==
  IF BinderActive(auth) THEN {Subscription(v)} ELSE {}

\* setLoading(false) on the inert branch; the active branch leaves it alone.
EffectLoading(auth, cur) == IF BinderActive(auth) THEN cur ELSE FALSE

\* setError(null) on the active branch.
EffectError(auth, cur) == IF BinderActive(auth) THEN Null ELSE cur

\* return () => unsubscribe(): the listeners the cleanup closes.
UnsubscribeNone(S) == {}
UnsubscribeCalls(S) == {s \in S : s.active}

\* The listeners left after the cleanup of the running effect; on unmount
\* what is left belongs to a component that is gone.
EffectCleanup(S, unmount) ==
  {[s EXCEPT !.active = FALSE, !.mounted = s.mounted /\ ~unmount] :
     s \in S \ UnsubscribeCalls(S)}

\* A write call whose component unmounted: it still completes, but React
\* drops the state updates of an unmounted component.
OrphanStillLive(calls) == calls
Orphan(calls) ==
  LET dead(c) == [c EXCEPT !.live = FALSE]
      D == {dead(c) : c \in BagToSet(calls)}
  IN [d \in D |->
        (IF d \in BagToSet(calls) THEN calls[d] ELSE 0)
        + (IF [d EXCEPT !.live = TRUE] \in BagToSet(calls)
             THEN calls[[d EXCEPT !.live = TRUE]] ELSE 0)]

\* useState initial values of the three content views (loading, error and
\* the listener are decided by the effect that runs after the first render).
FreshViewState ==
  /\ isSubmitting' = FALSE
  /\ moments' = <<>>
  /\ newMomentTitle' = <<>>
  /\ newMomentDescription' = <<>>
  /\ newMomentType' = "star"
  /\ editingMomentId' = NoId
  /\ editMomentTitle' = <<>>
  /\ editMomentDescription' = <<>>
  /\ editMomentType' = "star"
  /\ entries' = <<>>
  /\ newEntryText' = <<>>
  /\ editingEntryId' = NoId
  /\ editEntryText' = <<>>
  /\ purposeText' = <<>>

\* A content view mounts (any mounted one unmounts first) under auth.
MountView(v, auth) ==
  /\ FreshViewState
  /\ loading' = EffectLoading(auth, TRUE)
  /\ error' = Null
  /\ subs' = EffectCleanup(subs, TRUE) \cup EffectSubscribe(v, auth)
  /\ pending' = Orphan(pending)

\* The mounted view re-renders with a new context value; the effect runs
\* again only when a dependency (isAuthenticated) changed.
RerenderView(auth) ==
  /\ UNCHANGED <<isSubmitting, momentsView, journalView, purposeText, pending>>
  /\ IF auth # isAuthenticated
       THEN /\ subs' = EffectCleanup(subs, FALSE) \cup EffectSubscribe(view, auth)
            /\ loading' = EffectLoading(auth, loading)
            /\ error' = EffectError(auth, error)
       ELSE UNCHANGED <<subs, loading, error>>

\* AuthWrapper renders its children only when loadingAuth is false; the
\* first such render mounts AppContent, whose view starts at 'moments'.
AfterSessionChange(wasLoading, auth) ==
  IF wasLoading
    THEN /\ view' = "moments"
         /\ MountView("moments", auth)
    ELSE /\ view' = view
         /\ RerenderView(auth)

Closed(auth, unmount) ==
  IF unmount \/ auth # isAuthenticated THEN UnsubscribeCalls(subs) ELSE {}

\* What earlier sessions left in the store: nothing (a fresh deployment), or
\* one moment and one journal entry of each user, written as addMoment and
\* addEntry write them.
EarlierMoment(u, now) ==
  [id |-> now,
   data |-> [title |-> <<"a">>, description |-> <<>>, type |-> "star",
             date |-> now, addedBy |-> u, addedByName |-> Anonimo]]

EarlierEntry(u, now) ==
  [id |-> now,
   data |-> [text |-> <<"a">>, date |-> now, addedBy |-> u,
             addedByName |-> Anonimo]]

InitialStores ==
  {[journey_moments |-> {}, journal_entries |-> {}, serverClock |-> 0],
   [journey_moments |-> {EarlierMoment("u1", 1), EarlierMoment("u2", 2)},
    journal_entries |-> {EarlierEntry("u1", 3), EarlierEntry("u2", 4)},
    serverClock |-> 4]}

\* Every handler or callback run counts as one step of the behaviour.
Tick == steps < MaxSteps /\ steps' = steps + 1

\* ------------------------------------------------------------ AuthWrapper
\* if (loadingAuth) { return <div>A carregar autenticacao...</div>; }: the
\* provider, its children and the name modal are rendered only after it.
ChildrenRenderedAlways(resolving) == TRUE
ChildrenRendered(resolving) == ~resolving

\* if (storedName): getItem gave a string that is not empty
Truthy(item) == item # NoItem /\ item # <<>>

\* if (storedName) { setUserName(storedName); } else { setShowNameModal(true); }
ShowNameModalAlways(storedName, cur) == TRUE
ShowNameModalOnSignIn(storedName, cur) ==
  IF Truthy(storedName) THEN cur ELSE TRUE

\* setLoadingAuth(false), the last statement of the callback, for a user or
\* for none
LoadingAuthWhileSignedOut(user) == user = Null
LoadingAuthAfterCallback(user) == FALSE

\* else { setUserId(null); setUserName(''); ... }
UserNameKeptOnSignOut(cur) == cur
UserNameOnSignOut(cur) == <<>>

\* else { ...; setShowNameModal(false); }
ShowNameModalKeptOnSignOut(cur) == cur
ShowNameModalOnSignOut(cur) == FALSE

Init ==
  /\ userId = Null
  /\ userName = <<>>
  /\ isAuthenticated = FALSE
  /\ loadingAuth = TRUE
  /\ showNameModal = FALSE
  /\ localStorage = [u \in Users |-> NoItem]
  /\ signIn = "pending"
  /\ listenerFired = FALSE
  /\ view = "moments"
  /\ loading = TRUE
  /\ error = Null
  /\ isSubmitting = FALSE
  /\ moments = <<>>
  /\ newMomentTitle = <<>>
  /\ newMomentDescription = <<>>
  /\ newMomentType = "star"
  /\ editingMomentId = NoId
  /\ editMomentTitle = <<>>
  /\ editMomentDescription = <<>>
  /\ editMomentType = "star"
  /\ entries = <<>>
  /\ newEntryText = <<>>
  /\ editingEntryId = NoId
  /\ editEntryText = <<>>
  /\ purposeText = <<>>
  /\ \E st \in InitialStores :
       /\ journey_moments = st.journey_moments
       /\ journal_entries = st.journal_entries
       /\ serverClock = st.serverClock
  /\ our_purpose = {}
  /\ steps = 0
  /\ pending = EmptyBag
  /\ subs = {}
  /\ lastOp = [op |-> "init"]

\* authenticate(): the awaited sign-in settles (resolved or rejected; the
\* catch only logs) and the finally block runs setLoadingAuth(false).
authenticate ==
  /\ Tick
  /\ signIn = "pending"
  /\ signIn' = "done"
  /\ loadingAuth' = FALSE
  /\ UNCHANGED <<userId, userName, isAuthenticated, showNameModal,
                 localStorage, listenerFired, store>>
  /\ AfterSessionChange(loadingAuth, isAuthenticated)
  /\ lastOp' = [op |-> "authenticate", closed |-> Closed(isAuthenticated, FALSE)]

\* The onAuthStateChanged callback, for a user or for none (Null).  The
\* provider calls back once after registration and then on every change of
\* the signed-in user.
onAuthStateChanged(user) ==
  /\ Tick
  /\ ~listenerFired \/ user # userId
  /\ listenerFired' = TRUE
  /\ IF user # Null
       THEN /\ userId' = user
            /\ isAuthenticated' = TRUE
            /\ userName' = IF Truthy(localStorage[user])
                              THEN localStorage[user] ELSE userName
            /\ showNameModal' =
                 ShowNameModalOnSignIn(localStorage[user], showNameModal)
       ELSE /\ userId' = Null
            /\ userName' = UserNameOnSignOut(userName)
            /\ isAuthenticated' = FALSE
            /\ showNameModal' = ShowNameModalOnSignOut(showNameModal)
  /\ loadingAuth' = LoadingAuthAfterCallback(user)
  /\ UNCHANGED <<localStorage, signIn, store>>
  /\ AfterSessionChange(loadingAuth, user # Null)
  /\ lastOp' = [op |-> "onAuthStateChanged", user |-> user,
                closed |-> Closed(user # Null, FALSE),
                wasMounted |-> ~loadingAuth, hadPrompt |-> showNameModal]

\* if (userId) { localStorage.setItem(`user_name_${userId}`, name); }
StoreNameNowhere(storage, uid, name) == storage
StoreName(storage, uid, name) ==
  IF uid # Null THEN [storage EXCEPT ![uid] = name] ELSE storage

\* NameInputModal.handleSubmit with the typed name, and handleSaveName.
handleSaveName(name) ==
  /\ Tick
  /\ showNameModal
  /\ ChildrenRendered(loadingAuth)
  /\ IF Trim(name) # <<>>
       THEN /\ userName' = Trim(name)
            /\ localStorage' = StoreName(localStorage, userId, Trim(name))
            /\ showNameModal' = FALSE
       ELSE UNCHANGED <<userName, localStorage, showNameModal>>
  /\ UNCHANGED <<userId, isAuthenticated, loadingAuth, signIn, listenerFired,
                 view, loading, error, isSubmitting, momentsView, journalView,
                 purposeText, store, pending, subs>>
  /\ lastOp' = [op |-> "handleSaveName", name |-> name]

\* ------------------------------------------------------------- AppContent
\* onClick={() => setView(v)}: the current view unmounts, v mounts.
setView(v) ==
  /\ Tick
  /\ ChildrenRendered(loadingAuth)
  /\ v # view
  /\ view' = v
  /\ MountView(v, isAuthenticated)
  /\ UNCHANGED <<session, store>>
  /\ lastOp' = [op |-> "setView", to |-> v,
                closed |-> Closed(isAuthenticated, TRUE)]


\* setError(null) before the try block of a handler that goes ahead
ErrorKeptOnAttempt(cur) == cur
ErrorOnAttempt(cur) == Null

\* {isAuthenticated && userId === moment.addedBy && (<div> pencil, bin </div>)},
\* and the same for entry.addedBy: the condition of a record's controls
RecordControlsSignedIn(addedBy) == isAuthenticated
RecordControls(addedBy) == isAuthenticated /\ userId = addedBy

\* --------------------------------------------------------- JourneyMoments
Mounted(v) == ChildrenRendered(loadingAuth) /\ view = v

\* if (loading) return <p>...: the form and the list are rendered
Rendered(v) == Mounted(v) /\ ~loading

\* the state of the two content views that are not mounted
OtherViews == <<journalView, purposeText>>

\* snapshot.docs.map(doc => ({ id: doc.id, ...doc.data() }))
Fetched(docs) ==
  [i \in DOMAIN docs |->
     [f \in DOMAIN docs[i].data \cup {"id"} |->
        IF f \in DOMAIN docs[i].data THEN docs[i].data[f] ELSE docs[i].id]]

\* setMoments(fetchedMoments): the list becomes the payload, whatever it was
setMomentsMerging(prev, fetchedMoments) == prev \o fetchedMoments
setMoments(prev, fetchedMoments) == fetchedMoments

\* onSnapshot(q, (snapshot) => { setMoments(...); setLoading(false) })
onMomentsSnapshot(s) ==
  /\ Tick
  /\ s \in subs
  /\ s.path = "moments"
  /\ IF s.mounted
       THEN /\ moments' = setMoments(moments,
                                       Fetched(OrderByDateDesc(journey_moments)))
            /\ loading' = FALSE
       ELSE UNCHANGED <<moments, loading>>
  /\ UNCHANGED <<session, view, error, isSubmitting, momentsForm, momentsEdit,
                 OtherViews, store, pending, subs>>
  /\ lastOp' = [op |-> "onMomentsSnapshot", sub |-> s,
                hadLen |-> Len(moments)]

\* The error callback has no setMoments: the list stays as the last snapshot
\* left it.
MomentsClearedOnError(list) == <<>>
MomentsOnError(list) == list

\* onSnapshot(q, ..., (err) => { setError(...); setLoading(false) }); the
\* store ends a listener that failed.
onMomentsSnapshotError(s) ==
  /\ Tick
  /\ s \in subs
  /\ s.path = "moments"
  /\ subs' = subs \ {s}
  /\ IF s.mounted
       THEN /\ error' = ErrLoadMoments
            /\ loading' = FALSE
            /\ moments' = MomentsOnError(moments)
       ELSE UNCHANGED <<error, loading, moments>>
  /\ UNCHANGED <<session, view, isSubmitting, momentsForm, momentsEdit,
                 OtherViews, store, pending>>
  /\ lastOp' = [op |-> "onMomentsSnapshotError", sub |-> s]

\* The user fills the new-moment form: onChange of the title input, the
\* description textarea and the type select (all disabled while submitting).
fillNewMomentForm(f) ==
  /\ Tick
  /\ Rendered("moments")
  /\ ~isSubmitting
  /\ newMomentTitle' = f.title
  /\ newMomentDescription' = f.description
  /\ newMomentType' = f.type
  /\ UNCHANGED <<session, view, loading, error, isSubmitting, moments,
                 momentsEdit, OtherViews, store, pending, subs>>
  /\ lastOp' = [op |-> "onChange"]

\* The fields addMoment sends to addDoc.
NewMomentFieldsNoFallback ==
  [title |-> Trim(newMomentTitle),
   description |-> Trim(newMomentDescription),
   type |-> newMomentType,
   date |-> ServerTimestamp,
   addedBy |-> userId,
   addedByName |-> userName]
NewMomentFields ==
  [title |-> Trim(newMomentTitle),
   description |-> Trim(newMomentDescription),
   type |-> newMomentType,
   date |-> ServerTimestamp,
   addedBy |-> userId,
   addedByName |-> IF userName # <<>> THEN userName ELSE Anonimo]

\* if (!newMomentTitle.trim() || !isAuthenticated || isSubmitting) return;
AddMomentRejectsNotSubmitting ==
  Trim(newMomentTitle) = <<>> \/ ~isAuthenticated
AddMomentRejects ==
  Trim(newMomentTitle) = <<>> \/ ~isAuthenticated \/ isSubmitting

\* addMoment up to its await
addMoment ==
  /\ Tick
  /\ Mounted("moments")
  /\ IF AddMomentRejects
       THEN /\ UNCHANGED <<isSubmitting, error, pending>>
            /\ lastOp' = [op |-> "addMoment", submitting |-> isSubmitting,
                          issued |-> <<>>]
       ELSE /\ isSubmitting' = TRUE
            /\ error' = ErrorOnAttempt(error)
            /\ pending' = Issue(pending, Call("addDoc", "addMoment", NoId, NewMomentFields))
            /\ lastOp' = [op |-> "addMoment", submitting |-> isSubmitting,
                          hadError |-> error,
                          issued |-> <<Call("addDoc", "addMoment", NoId,
                                            NewMomentFields)>>]
  /\ UNCHANGED <<session, view, loading, momentsView, OtherViews, store, subs>>

\* finally { setIsSubmitting(false); }: the flag after a call that succeeded
\* (ok) or failed
SubmittingAfterTry(ok) == ~ok
SubmittingAfterCall(ok) == FALSE

\* addMoment after its await: the try, catch and finally blocks
addMomentDone(c, ok) ==
  /\ Tick
  /\ c \in CallsBy("addMoment")
  /\ pending' = Settle(pending, c)
  /\ IF ok
       THEN /\ journey_moments' =
                 StoreAddDoc(journey_moments, c.fields, serverClock + 1)
            /\ serverClock' = serverClock + 1
       ELSE UNCHANGED <<journey_moments, serverClock>>
  /\ IF c.live
       THEN /\ isSubmitting' = SubmittingAfterCall(ok)
            /\ IF ok
                 THEN /\ newMomentTitle' = <<>>
                      /\ newMomentDescription' = <<>>
                      /\ newMomentType' = "star"
                      /\ error' = error
                 ELSE /\ error' = ErrAddMoment
                      /\ UNCHANGED momentsForm
       ELSE UNCHANGED <<isSubmitting, error, momentsForm>>
  /\ UNCHANGED <<session, view, loading, moments, momentsEdit, OtherViews,
                 journal_entries, our_purpose, subs>>
  /\ lastOp' = [op |-> "addMomentDone", ok |-> ok, live |-> c.live]


\* The pencil and bin controls of a listed moment are rendered: the list is
\* (not the loading line), the moment is in display mode (its edit form is
\* not), and the condition of the controls holds.
MomentControlsOffered(id, addedBy) ==
  /\ Rendered("moments")
  /\ editingMomentId # id
  /\ RecordControls(addedBy)

\* startEditingMoment(moment), from the pencil control of a listed moment
startEditingMoment(m) ==
  /\ Tick
  /\ Mounted("moments")
  /\ editingMomentId' = m.id
  /\ editMomentTitle' = m.title
  /\ editMomentDescription' = m.description
  /\ editMomentType' = m.type
  /\ UNCHANGED <<session, view, loading, error, isSubmitting, moments,
                 momentsForm, OtherViews, store, pending, subs>>
  /\ lastOp' = [op |-> "startEditingMoment", id |-> m.id,
                addedById |-> m.addedBy,
                offered |-> MomentControlsOffered(m.id, m.addedBy)]

\* The state cancelEditingMoment() leaves the edit form in.
CancelEditingMomentKeepsFields ==
  /\ editingMomentId' = NoId
  /\ UNCHANGED <<editMomentTitle, editMomentDescription, editMomentType>>
CancelEditingMomentState ==
  /\ editingMomentId' = NoId
  /\ editMomentTitle' = <<>>
  /\ editMomentDescription' = <<>>
  /\ editMomentType' = "star"

cancelEditingMoment ==
  /\ Tick
  /\ Mounted("moments")
  /\ CancelEditingMomentState
  /\ UNCHANGED <<session, view, loading, error, isSubmitting, moments,
                 momentsForm, OtherViews, store, pending, subs>>
  /\ lastOp' = [op |-> "cancelEditingMoment"]

\* {editingMomentId === moment.id ? <form onSubmit={updateMoment}> ...}
EditMomentFormRendered ==
  /\ Rendered("moments")
  /\ \E k \in DOMAIN moments : moments[k].id = editingMomentId

\* The user fills the edit form: onChange of its three controls.
fillEditMomentForm(f) ==
  /\ Tick
  /\ EditMomentFormRendered
  /\ ~isSubmitting
  /\ editMomentTitle' = f.title
  /\ editMomentDescription' = f.description
  /\ editMomentType' = f.type
  /\ UNCHANGED <<session, view, loading, error, isSubmitting, moments,
                 momentsForm, editingMomentId, OtherViews, store, pending, subs>>
  /\ lastOp' = [op |-> "onChange"]

\* The fields updateMoment sends to updateDoc.
EditMomentFieldsRestamped ==
  [title |-> Trim(editMomentTitle),
   description |-> Trim(editMomentDescription),
   type |-> editMomentType,
   addedBy |-> userId]
EditMomentFields ==
  [title |-> Trim(editMomentTitle),
   description |-> Trim(editMomentDescription),
   type |-> editMomentType]

\* if (!editMomentTitle.trim() || !isAuthenticated || isSubmitting ||
\*     !editingMomentId) return;
UpdateMomentRejectsNotSubmitting ==
  \/ Trim(editMomentTitle) = <<>>
  \/ ~isAuthenticated
  \/ editingMomentId = NoId
UpdateMomentRejects ==
  \/ Trim(editMomentTitle) = <<>>
  \/ ~isAuthenticated
  \/ isSubmitting
  \/ editingMomentId = NoId

\* updateMoment up to its await
updateMoment ==
  /\ Tick
  /\ Mounted("moments")
  /\ IF UpdateMomentRejects
       THEN /\ UNCHANGED <<isSubmitting, error, pending>>
            /\ lastOp' = [op |-> "updateMoment", submitting |-> isSubmitting,
                          issued |-> <<>>]
       ELSE /\ isSubmitting' = TRUE
            /\ error' = ErrorOnAttempt(error)
            /\ pending' = Issue(pending, Call("updateDoc", "updateMoment",
                                      editingMomentId, EditMomentFields))
            /\ lastOp' = [op |-> "updateMoment", submitting |-> isSubmitting,
                          hadError |-> error,
                          issued |-> <<Call("updateDoc", "updateMoment",
                                            editingMomentId, EditMomentFields)>>]
  /\ UNCHANGED <<session, view, loading, momentsView, OtherViews, store, subs>>

\* updateMoment after its await; updateDoc fails on a missing document
updateMomentDone(c, ok) ==
  /\ Tick
  /\ c \in CallsBy("updateMoment")
  /\ ok => DocExists(journey_moments, c.id)
  /\ pending' = Settle(pending, c)
  /\ journey_moments' =
       IF ok THEN StoreUpdateDoc(journey_moments, c.id, c.fields)
       ELSE journey_moments
  /\ IF c.live
       THEN /\ isSubmitting' = SubmittingAfterCall(ok)
            /\ IF ok
                 THEN /\ CancelEditingMomentState
                      /\ error' = error
                 ELSE /\ error' = ErrUpdateMoment
                      /\ UNCHANGED momentsEdit
       ELSE UNCHANGED <<isSubmitting, error, momentsEdit>>
  /\ UNCHANGED <<session, view, loading, moments, momentsForm, OtherViews,
                 journal_entries, our_purpose, serverClock, subs>>
  /\ lastOp' = [op |-> "updateMomentDone", ok |-> ok, live |-> c.live,
                id |-> c.id, editing |-> editingMomentId,
                held |-> Holds(journey_moments, c.id, c.fields)]

\* if (window.confirm(...)) { ... deleteDoc ... }: the answer lets the call go
ConfirmIgnored(yes) == TRUE
Confirmed(yes) == yes

\* The code after await deleteDoc has no setMoments: the list waits for the
\* next snapshot.
MomentsWithout(list, id) == SelectSeq(list, LAMBDA m : m.id # id)
MomentsAfterDelete(list, id) == list

\* if (!isAuthenticated || userId !== addedById) { setError(...); return; }
DeleteMomentDeniedSignedOut(addedById) == ~isAuthenticated
DeleteMomentDenied(addedById) == ~isAuthenticated \/ userId # addedById

\* deleteMoment(id, addedById) up to its await; yes is what window.confirm
\* returns
deleteMoment(id, addedById, yes) ==
  /\ Tick
  /\ Mounted("moments")
  /\ IF DeleteMomentDenied(addedById)
       THEN /\ error' = ErrDeleteMomentDenied
            /\ pending' = pending
            /\ lastOp' = [op |-> "deleteMoment", submitting |-> isSubmitting,
                          id |-> id, addedById |-> addedById,
                          offered |-> MomentControlsOffered(id, addedById),
                          prompted |-> FALSE, confirmed |-> FALSE,
                          issued |-> <<>>]
       ELSE /\ error' = ErrorOnAttempt(error)
            /\ IF Confirmed(yes)
                 THEN /\ pending' = Issue(pending, Call("deleteDoc", "deleteMoment", id,
                                                <<>>))
                 ELSE pending' = pending
            /\ lastOp' = [op |-> "deleteMoment", submitting |-> isSubmitting,
                          id |-> id, addedById |-> addedById,
                          offered |-> MomentControlsOffered(id, addedById),
                          prompted |-> TRUE, hadError |-> error,
                          confirmed |-> yes,
                          issued |-> IF Confirmed(yes)
                                       THEN <<Call("deleteDoc", "deleteMoment",
                                                   id, <<>>)>>
                                       ELSE <<>>]
  /\ UNCHANGED <<session, view, loading, isSubmitting, momentsView, OtherViews,
                 store, subs>>

\* deleteMoment after its await
deleteMomentDone(c, ok) ==
  /\ Tick
  /\ c \in CallsBy("deleteMoment")
  /\ pending' = Settle(pending, c)
  /\ journey_moments' = DeleteDocOutcome(journey_moments, c.id, ok)
  /\ error' = IF c.live /\ ~ok THEN ErrDeleteMoment ELSE error
  /\ moments' = IF c.live /\ ok THEN MomentsAfterDelete(moments, c.id)
                 ELSE moments
  /\ UNCHANGED <<session, view, loading, isSubmitting, momentsForm, momentsEdit,
                 OtherViews,
                 journal_entries, our_purpose, serverClock, subs>>
  /\ lastOp' = [op |-> "deleteMomentDone", ok |-> ok, live |-> c.live,
                id |-> c.id]

JourneyMoments ==
  \/ \E s \in subs : onMomentsSnapshot(s)
  \/ \E s \in subs : onMomentsSnapshotError(s)
  \/ \E f \in NewMomentInputs : fillNewMomentForm(f)
  \/ addMoment
  \/ \E c \in BagToSet(pending), ok \in BOOLEAN : addMomentDone(c, ok)
  \/ \E k \in DOMAIN moments : startEditingMoment(moments[k])
  \/ cancelEditingMoment
  \/ \E f \in EditMomentInputs : fillEditMomentForm(f)
  \/ updateMoment
  \/ \E c \in BagToSet(pending), ok \in BOOLEAN : updateMomentDone(c, ok)
  \/ \E k \in DOMAIN moments, yes \in BOOLEAN :
       deleteMoment(moments[k].id, moments[k].addedBy, yes)
  \/ \E c \in BagToSet(pending), ok \in BOOLEAN : deleteMomentDone(c, ok)

\* -------------------------------------------------------------- OurJournal
JournalOthers == <<momentsView, purposeText>>

\* setEntries(fetchedEntries)
setEntries(prev, fetchedEntries) == fetchedEntries

\* onSnapshot(q, (snapshot) => { setEntries(...); setLoading(false) })
onJournalSnapshot(s) ==
  /\ Tick
  /\ s \in subs
  /\ s.path = "journal"
  /\ IF s.mounted
       THEN /\ entries' = setEntries(entries,
                                       Fetched(OrderByDateDesc(journal_entries)))
            /\ loading' = FALSE
       ELSE UNCHANGED <<entries, loading>>
  /\ UNCHANGED <<session, view, error, isSubmitting, newEntryText,
                 editingEntryId, editEntryText, JournalOthers, store, pending,
                 subs>>
  /\ lastOp' = [op |-> "onJournalSnapshot", sub |-> s,
                hadLen |-> Len(entries)]

\* onSnapshot(q, ..., (err) => { setError(...); setLoading(false) })
onJournalSnapshotError(s) ==
  /\ Tick
  /\ s \in subs
  /\ s.path = "journal"
  /\ subs' = subs \ {s}
  /\ IF s.mounted
       THEN /\ error' = ErrLoadJournal
            /\ loading' = FALSE
       ELSE UNCHANGED <<error, loading>>
  /\ UNCHANGED <<session, view, isSubmitting, journalView, JournalOthers,
                 store, pending>>
  /\ lastOp' = [op |-> "onJournalSnapshotError", sub |-> s]

\* onChange of the new-entry textarea (disabled while submitting)
setNewEntryText(t) ==
  /\ Tick
  /\ Rendered("journal")
  /\ ~isSubmitting
  /\ newEntryText' = t
  /\ UNCHANGED <<session, view, loading, error, isSubmitting, entries,
                 editingEntryId, editEntryText, JournalOthers, store, pending,
                 subs>>
  /\ lastOp' = [op |-> "onChange"]

\* The fields addEntry sends to addDoc.
NewEntryFields ==
  [text |-> Trim(newEntryText),
   date |-> ServerTimestamp,
   addedBy |-> userId,
   addedByName |-> IF userName # <<>> THEN userName ELSE Anonimo]

\* if (!newEntryText.trim() || !isAuthenticated || isSubmitting) return;
AddEntryRejects ==
  Trim(newEntryText) = <<>> \/ ~isAuthenticated \/ isSubmitting

\* addEntry up to its await
addEntry ==
  /\ Tick
  /\ Mounted("journal")
  /\ IF AddEntryRejects
       THEN /\ UNCHANGED <<isSubmitting, error, pending>>
            /\ lastOp' = [op |-> "addEntry", submitting |-> isSubmitting,
                          issued |-> <<>>]
       ELSE /\ isSubmitting' = TRUE
            /\ error' = ErrorOnAttempt(error)
            /\ pending' = Issue(pending, Call("addDoc", "addEntry", NoId, NewEntryFields))
            /\ lastOp' = [op |-> "addEntry", submitting |-> isSubmitting,
                          hadError |-> error,
                          issued |-> <<Call("addDoc", "addEntry", NoId,
                                            NewEntryFields)>>]
  /\ UNCHANGED <<session, view, loading, journalView, JournalOthers, store, subs>>

\* setNewEntryText('') is the last statement of the try block: the text after
\* a call that succeeded (ok) or failed
NewEntryTextCleared(ok, text) == <<>>
NewEntryTextAfterCall(ok, text) == IF ok THEN <<>> ELSE text

\* addEntry after its await: the try, catch and finally blocks
addEntryDone(c, ok) ==
  /\ Tick
  /\ c \in CallsBy("addEntry")
  /\ pending' = Settle(pending, c)
  /\ IF ok
       THEN /\ journal_entries' =
                 StoreAddDoc(journal_entries, c.fields, serverClock + 1)
            /\ serverClock' = serverClock + 1
       ELSE UNCHANGED <<journal_entries, serverClock>>
  /\ IF c.live
       THEN /\ isSubmitting' = SubmittingAfterCall(ok)
            /\ IF ok
                 THEN /\ newEntryText' = NewEntryTextAfterCall(ok, newEntryText)
                      /\ error' = error
                 ELSE /\ error' = ErrAddEntry
                      /\ newEntryText' = NewEntryTextAfterCall(ok, newEntryText)
       ELSE UNCHANGED <<isSubmitting, error, newEntryText>>
  /\ UNCHANGED <<session, view, loading, entries, editingEntryId,
                 editEntryText, JournalOthers, journey_moments, our_purpose,
                 subs>>
  /\ lastOp' = [op |-> "addEntryDone", ok |-> ok, live |-> c.live]

\* The pencil and bin controls of a listed entry are rendered.
EntryControlsOffered(id, addedBy) ==
  /\ Rendered("journal")
  /\ editingEntryId # id
  /\ RecordControls(addedBy)

\* startEditingEntry(entry), from the pencil control of a listed entry
startEditingEntry(e) ==
  /\ Tick
  /\ Mounted("journal")
  /\ editingEntryId' = e.id
  /\ editEntryText' = e.text
  /\ UNCHANGED <<session, view, loading, error, isSubmitting, entries,
                 newEntryText, JournalOthers, store, pending, subs>>
  /\ lastOp' = [op |-> "startEditingEntry", id |-> e.id,
                addedById |-> e.addedBy,
                offered |-> EntryControlsOffered(e.id, e.addedBy)]

\* The state cancelEditingEntry() leaves the edit form in.
CancelEditingEntryState ==
  /\ editingEntryId' = NoId
  /\ editEntryText' = <<>>

cancelEditingEntry ==
  /\ Tick
  /\ Mounted("journal")
  /\ CancelEditingEntryState
  /\ UNCHANGED <<session, view, loading, error, isSubmitting, entries,
                 newEntryText, JournalOthers, store, pending, subs>>
  /\ lastOp' = [op |-> "cancelEditingEntry"]

\* {editingEntryId === entry.id ? <form onSubmit={updateEntry}> ...}
EditEntryFormRendered ==
  /\ Rendered("journal")
  /\ \E k \in DOMAIN entries : entries[k].id = editingEntryId

\* onChange of the edit textarea
setEditEntryText(t) ==
  /\ Tick
  /\ EditEntryFormRendered
  /\ ~isSubmitting
  /\ editEntryText' = t
  /\ UNCHANGED <<session, view, loading, error, isSubmitting, entries,
                 newEntryText, editingEntryId, JournalOthers, store, pending,
                 subs>>
  /\ lastOp' = [op |-> "onChange"]

\* The fields updateEntry sends to updateDoc.
EditEntryFields == [text |-> Trim(editEntryText)]

\* if (!editEntryText.trim() || !isAuthenticated || isSubmitting ||
\*     !editingEntryId) return;
UpdateEntryRejects ==
  \/ Trim(editEntryText) = <<>>
  \/ ~isAuthenticated
  \/ isSubmitting
  \/ editingEntryId = NoId

\* updateEntry up to its await
updateEntry ==
  /\ Tick
  /\ Mounted("journal")
  /\ IF UpdateEntryRejects
       THEN /\ UNCHANGED <<isSubmitting, error, pending>>
            /\ lastOp' = [op |-> "updateEntry", submitting |-> isSubmitting,
                          issued |-> <<>>]
       ELSE /\ isSubmitting' = TRUE
            /\ error' = ErrorOnAttempt(error)
            /\ pending' = Issue(pending, Call("updateDoc", "updateEntry",
                                      editingEntryId, EditEntryFields))
            /\ lastOp' = [op |-> "updateEntry", submitting |-> isSubmitting,
                          hadError |-> error,
                          issued |-> <<Call("updateDoc", "updateEntry",
                                            editingEntryId, EditEntryFields)>>]
  /\ UNCHANGED <<session, view, loading, journalView, JournalOthers, store, subs>>

\* updateEntry after its await; updateDoc fails on a missing document
updateEntryDone(c, ok) ==
  /\ Tick
  /\ c \in CallsBy("updateEntry")
  /\ ok => DocExists(journal_entries, c.id)
  /\ pending' = Settle(pending, c)
  /\ journal_entries' =
       IF ok THEN StoreUpdateDoc(journal_entries, c.id, c.fields)
       ELSE journal_entries
  /\ IF c.live
       THEN /\ isSubmitting' = SubmittingAfterCall(ok)
            /\ IF ok
                 THEN /\ CancelEditingEntryState
                      /\ error' = error
                 ELSE /\ error' = ErrUpdateEntry
                      /\ UNCHANGED <<editingEntryId, editEntryText>>
       ELSE UNCHANGED <<isSubmitting, error, editingEntryId, editEntryText>>
  /\ UNCHANGED <<session, view, loading, entries, newEntryText, JournalOthers,
                 journey_moments, our_purpose, serverClock, subs>>
  /\ lastOp' = [op |-> "updateEntryDone", ok |-> ok, live |-> c.live,
                held |-> Holds(journal_entries, c.id, c.fields)]

\* if (!isAuthenticated || userId !== addedById) { setError(...); return; }
DeleteEntryDenied(addedById) == ~isAuthenticated \/ userId # addedById

\* deleteEntry(id, addedById) up to its await; yes is what window.confirm
\* returns
deleteEntry(id, addedById, yes) ==
  /\ Tick
  /\ Mounted("journal")
  /\ IF DeleteEntryDenied(addedById)
       THEN /\ error' = ErrDeleteEntryDenied
            /\ pending' = pending
            /\ lastOp' = [op |-> "deleteEntry", submitting |-> isSubmitting,
                          id |-> id, addedById |-> addedById,
                          offered |-> EntryControlsOffered(id, addedById),
                          prompted |-> FALSE, confirmed |-> FALSE,
                          issued |-> <<>>]
       ELSE /\ error' = ErrorOnAttempt(error)
            /\ IF Confirmed(yes)
                 THEN /\ pending' = Issue(pending, Call("deleteDoc", "deleteEntry", id,
                                                <<>>))
                 ELSE pending' = pending
            /\ lastOp' = [op |-> "deleteEntry", submitting |-> isSubmitting,
                          id |-> id, addedById |-> addedById,
                          offered |-> EntryControlsOffered(id, addedById),
                          prompted |-> TRUE, hadError |-> error,
                          confirmed |-> yes,
                          issued |-> IF Confirmed(yes)
                                       THEN <<Call("deleteDoc", "deleteEntry",
                                                   id, <<>>)>>
                                       ELSE <<>>]
  /\ UNCHANGED <<session, view, loading, isSubmitting, journalView,
                 JournalOthers, store, subs>>

\* deleteEntry after its await
deleteEntryDone(c, ok) ==
  /\ Tick
  /\ c \in CallsBy("deleteEntry")
  /\ pending' = Settle(pending, c)
  /\ journal_entries' = DeleteDocOutcome(journal_entries, c.id, ok)
  /\ error' = IF c.live /\ ~ok THEN ErrDeleteEntry ELSE error
  /\ UNCHANGED <<session, view, loading, isSubmitting, journalView,
                 JournalOthers, journey_moments, our_purpose, serverClock, subs>>
  /\ lastOp' = [op |-> "deleteEntryDone", ok |-> ok, live |-> c.live,
                id |-> c.id]

OurJournal ==
  \/ \E s \in subs : onJournalSnapshot(s)
  \/ \E s \in subs : onJournalSnapshotError(s)
  \/ \E t \in NewEntryInputs : setNewEntryText(t)
  \/ addEntry
  \/ \E c \in BagToSet(pending), ok \in BOOLEAN : addEntryDone(c, ok)
  \/ \E k \in DOMAIN entries : startEditingEntry(entries[k])
  \/ cancelEditingEntry
  \/ \E t \in EditEntryInputs : setEditEntryText(t)
  \/ updateEntry
  \/ \E c \in BagToSet(pending), ok \in BOOLEAN : updateEntryDone(c, ok)
  \/ \E k \in DOMAIN entries, yes \in BOOLEAN :
       deleteEntry(entries[k].id, entries[k].addedBy, yes)
  \/ \E c \in BagToSet(pending), ok \in BOOLEAN : deleteEntryDone(c, ok)

\* -------------------------------------------------------------- OurPurpose
PurposeOthers == <<momentsView, journalView>>

\* the fixed document key of doc(db, '.../our_purpose', 'sharedPurpose')
SharedPurpose == "sharedPurpose"

\* docSnap.exists() ? docSnap.data().text || '' : ''
PurposeTextOf(docs) ==
  IF docs = {} THEN <<>>
  ELSE LET d == CHOOSE x \in docs : TRUE
       IN IF "text" \in DOMAIN d.data THEN d.data.text ELSE <<>>

\* setPurposeText(...) of the callback: the text becomes the one fetched,
\* whatever the textarea held
PurposeTextKeepingEdits(prev, fetched) ==
  IF prev # <<>> THEN prev ELSE fetched
PurposeTextOnSnapshot(prev, fetched) == fetched

\* onSnapshot(purposeDocRef, (docSnap) => { setPurposeText(...);
\* setLoading(false) })
onPurposeSnapshot(s) ==
  /\ Tick
  /\ s \in subs
  /\ s.path = "purpose"
  /\ IF s.mounted
       THEN /\ purposeText' = PurposeTextOnSnapshot(purposeText,
                                                  PurposeTextOf(our_purpose))
            /\ loading' = FALSE
       ELSE UNCHANGED <<purposeText, loading>>
  /\ UNCHANGED <<session, view, error, isSubmitting, PurposeOthers, store,
                 pending, subs>>
  /\ lastOp' = [op |-> "onPurposeSnapshot", sub |-> s,
                hadLen |-> Len(purposeText)]

\* onSnapshot(purposeDocRef, ..., (err) => { setError(...); setLoading(false) })
onPurposeSnapshotError(s) ==
  /\ Tick
  /\ s \in subs
  /\ s.path = "purpose"
  /\ subs' = subs \ {s}
  /\ IF s.mounted
       THEN /\ error' = ErrLoadPurpose
            /\ loading' = FALSE
       ELSE UNCHANGED <<error, loading>>
  /\ UNCHANGED <<session, view, isSubmitting, purposeText, PurposeOthers,
                 store, pending>>
  /\ lastOp' = [op |-> "onPurposeSnapshotError", sub |-> s]

\* onChange of the purpose textarea (disabled while submitting)
setPurposeText(t) ==
  /\ Tick
  /\ Rendered("purpose")
  /\ ~isSubmitting
  /\ purposeText' = t
  /\ UNCHANGED <<session, view, loading, error, isSubmitting, PurposeOthers,
                 store, pending, subs>>
  /\ lastOp' = [op |-> "onChange"]

\* The fields updatePurpose sends to setDoc.
PurposeFields ==
  [text |-> Trim(purposeText),
   lastUpdated |-> ServerTimestamp,
   updatedBy |-> userId]

\* if (!isAuthenticated || isSubmitting) return;
UpdatePurposeRejectsSubmitting == isSubmitting
UpdatePurposeRejects == ~isAuthenticated \/ isSubmitting

\* updatePurpose up to its await
updatePurpose ==
  /\ Tick
  /\ Mounted("purpose")
  /\ IF UpdatePurposeRejects
       THEN /\ UNCHANGED <<isSubmitting, error, pending>>
            /\ lastOp' = [op |-> "updatePurpose", submitting |-> isSubmitting,
                          issued |-> <<>>]
       ELSE /\ isSubmitting' = TRUE
            /\ error' = ErrorOnAttempt(error)
            /\ pending' = Issue(pending, Call("setDoc", "updatePurpose",
                                      SharedPurpose, PurposeFields))
            /\ lastOp' = [op |-> "updatePurpose", submitting |-> isSubmitting,
                          hadError |-> error,
                          issued |-> <<Call("setDoc", "updatePurpose",
                                            SharedPurpose, PurposeFields)>>]
  /\ UNCHANGED <<session, view, loading, purposeText, PurposeOthers, store, subs>>

\* updatePurpose after its await: the catch and finally blocks
updatePurposeDone(c, ok) ==
  /\ Tick
  /\ c \in CallsBy("updatePurpose")
  /\ pending' = Settle(pending, c)
  /\ IF ok
       THEN /\ our_purpose' =
                 StoreSetDocMerge(our_purpose, c.id, c.fields, serverClock + 1)
            /\ serverClock' = serverClock + 1
       ELSE UNCHANGED <<our_purpose, serverClock>>
  /\ IF c.live
       THEN /\ isSubmitting' = SubmittingAfterCall(ok)
            /\ error' = IF ok THEN error ELSE ErrUpdatePurpose
       ELSE UNCHANGED <<isSubmitting, error>>
  /\ UNCHANGED <<session, view, loading, purposeText, PurposeOthers,
                 journey_moments, journal_entries, subs>>
  /\ lastOp' = [op |-> "updatePurposeDone", ok |-> ok, live |-> c.live]

OurPurpose ==
  \/ \E s \in subs : onPurposeSnapshot(s)
  \/ \E s \in subs : onPurposeSnapshotError(s)
  \/ \E t \in PurposeInputs : setPurposeText(t)
  \/ updatePurpose
  \/ \E c \in BagToSet(pending), ok \in BOOLEAN : updatePurposeDone(c, ok)

Next ==
  \/ authenticate
  \/ \E user \in Users \cup {Null} : onAuthStateChanged(user)
  \/ \E name \in NameInputs : handleSaveName(name)
  \/ \E v \in {"moments", "journal", "purpose"} : setView(v)
  \/ JourneyMoments
  \/ OurJournal
  \/ OurPurpose

Spec == Init /\ [][Next]_allvars

\* ------------------------------------------- the variant unnamed/part_000
\* src/unnamed/part_000 is a later copy of the program.  Modelled here: its
\* AuthWrapper and the binder of its JourneyMoments, which differ from
\* App.js in three ways.  (1) app, db and auth are null when the Firebase
\* configuration is empty.  (2) The context value is a new object at every
\* render of AuthWrapper.  (3) momentsCollectionRef, a new object at every
\* render, is a dependency of the effect, so the effect runs again after
\* every render of the view.

\* signIn of a process whose configuration is empty: const auth = null
NoAuthHandle == "noAuthHandle"

\* const db = app ? getFirestore(app) : null
db000 == signIn # NoAuthHandle

\* an uncaught error while rendering: React unmounts the whole tree
Crashed == "crashed"

\* if (!db || !isAuthenticated || !momentsCollectionRef)
BinderActive000(auth) == db000 /\ auth

\* the listener opened by the effect run that ends step n
Subscription000(v, n) ==
  [path |-> v, active |-> TRUE, mounted |-> TRUE, serial |-> n]

EffectSubscribe000(v, auth, n) ==
  IF BinderActive000(auth) THEN {Subscription000(v, n)} ELSE {}

\* JourneyMoments mounts; collection(db, ...) throws when db is null
MountView000(auth) ==
  /\ FreshViewState
  /\ error' = Null
  /\ pending' = pending
  /\ IF db000
       THEN /\ view' = "moments"
            /\ loading' = IF BinderActive000(auth) THEN TRUE ELSE FALSE
            /\ subs' = EffectSubscribe000("moments", auth, steps + 1)
       ELSE /\ view' = Crashed
            /\ loading' = TRUE
            /\ subs' = {}

\* JourneyMoments or OurJournal renders again: the cleanup of the last
\* effect run, then the effect, whose dependency (momentsCollectionRef,
\* journalCollectionRef) is never the same
RerenderView000(auth, newLoading, newError) ==
  /\ view' = view
  /\ subs' = EffectCleanup(subs, FALSE)
               \cup EffectSubscribe000(view, auth, steps + 1)
  /\ loading' = IF BinderActive000(auth) THEN newLoading ELSE FALSE
  /\ error' = IF BinderActive000(auth) THEN Null ELSE newError

\* AuthWrapper renders after a handler that left its state as given
AfterSessionChange000(changed, auth) ==
  IF loadingAuth
    THEN MountView000(auth)
    ELSE IF changed /\ view \in {"moments", "journal"}
           THEN /\ RerenderView000(auth, loading, error)
                /\ UNCHANGED <<isSubmitting, momentsView, journalView,
                               purposeText, pending>>
           ELSE UNCHANGED <<view, loading, error, isSubmitting, momentsView,
                            journalView, purposeText, pending, subs>>

\* finally { setLoadingAuth(false); }: loadingAuth after a sign-in that
\* succeeded (ok) or failed
LoadingAuthAfterTry(ok) == ~ok
LoadingAuthAfterSignIn(ok) == FALSE

\* authenticate() of part_000 while the loading screen is shown: without an
\* auth handle it calls setLoadingAuth(false) and returns; with one, the
\* awaited sign-in settles and the finally block runs
authenticate000(ok) ==
  /\ Tick
  /\ signIn \in {"pending", NoAuthHandle}
  /\ signIn = NoAuthHandle => ~ok
  /\ signIn' = IF signIn = "pending" THEN "done" ELSE signIn
  /\ loadingAuth
  /\ loadingAuth' = IF signIn = NoAuthHandle THEN FALSE
                    ELSE LoadingAuthAfterSignIn(ok)
  /\ UNCHANGED <<userId, userName, isAuthenticated, showNameModal,
                 localStorage, listenerFired, store>>
  /\ IF loadingAuth'
       THEN UNCHANGED <<view, loading, error, isSubmitting, momentsView,
                        journalView, purposeText, pending, subs>>
       ELSE AfterSessionChange000(TRUE, isAuthenticated)
  /\ lastOp' = [op |-> "authenticate", closed |-> {}, ok |-> ok]

\* authenticate() settles after the first onAuthStateChanged callback:
\* setLoadingAuth(false) changes nothing and nothing renders
authenticateLate000 ==
  /\ Tick
  /\ signIn = "pending"
  /\ signIn' = "done"
  /\ ~loadingAuth
  /\ UNCHANGED <<userId, userName, isAuthenticated, loadingAuth,
                 showNameModal, localStorage, listenerFired, store, view,
                 loading, error, isSubmitting, momentsView, journalView,
                 purposeText, pending, subs>>
  /\ lastOp' = [op |-> "authenticate", closed |-> {}, ok |-> TRUE]

\* the onAuthStateChanged callback of part_000 (registered only when auth
\* is not null)
onAuthStateChanged000(user) ==
  /\ Tick
  /\ signIn # NoAuthHandle
  /\ view # Crashed
  /\ ~listenerFired \/ user # userId
  /\ listenerFired' = TRUE
  /\ IF user # Null
       THEN /\ userId' = user
            /\ isAuthenticated' = TRUE
            /\ userName' = IF Truthy(localStorage[user])
                              THEN localStorage[user] ELSE userName
            /\ showNameModal' =
                 ShowNameModalOnSignIn(localStorage[user], showNameModal)
       ELSE /\ userId' = Null
            /\ userName' = UserNameOnSignOut(userName)
            /\ isAuthenticated' = FALSE
            /\ showNameModal' = ShowNameModalOnSignOut(showNameModal)
  /\ loadingAuth' = LoadingAuthAfterCallback(user)
  /\ UNCHANGED <<localStorage, signIn, store>>
  /\ AfterSessionChange000(
       <<userId', userName', isAuthenticated', showNameModal'>>
         # <<userId, userName, isAuthenticated, showNameModal>>,
       user # Null)
  /\ lastOp' = [op |-> "onAuthStateChanged", user |-> user,
                closed |-> IF loadingAuth THEN {} ELSE subs \ subs',
                wasMounted |-> ~loadingAuth, hadPrompt |-> showNameModal]

\* handleSaveName of part_000: the new name is a new context value
handleSaveName000(name) ==
  /\ Tick
  /\ showNameModal
  /\ Mounted("moments")
  /\ IF Trim(name) # <<>>
       THEN /\ userName' = Trim(name)
            /\ localStorage' = StoreName(localStorage, userId, Trim(name))
            /\ showNameModal' = FALSE
       ELSE UNCHANGED <<userName, localStorage, showNameModal>>
  /\ UNCHANGED <<userId, isAuthenticated, loadingAuth, signIn, listenerFired,
                 store>>
  /\ AfterSessionChange000(Trim(name) # <<>>, isAuthenticated)
  /\ lastOp' = [op |-> "handleSaveName", name |-> name]

\* the onSnapshot callback of part_000: setMoments(fetchedMoments) makes
\* the view render, and the effect runs again
onMomentsSnapshot000(s) ==
  /\ Tick
  /\ s \in subs
  /\ s.path = "moments"
  /\ s.mounted
  /\ moments' = setMoments(moments, Fetched(OrderByDateDesc(journey_moments)))
  /\ RerenderView000(isAuthenticated, FALSE, error)
  /\ UNCHANGED <<session, isSubmitting, momentsForm, momentsEdit, OtherViews,
                 store, pending>>
  /\ lastOp' = [op |-> "onMomentsSnapshot", sub |-> s, hadLen |-> Len(moments)]

\* the onSnapshot error callback of part_000: setError(...) makes the view
\* render, and the effect that runs again calls setError(null)
onMomentsSnapshotError000(s) ==
  /\ Tick
  /\ s \in subs
  /\ s.path = "moments"
  /\ s.mounted
  /\ RerenderView000(isAuthenticated, FALSE, ErrLoadMoments)
  /\ UNCHANGED <<session, isSubmitting, momentsView, OtherViews, store,
                 pending>>
  /\ lastOp' = [op |-> "onMomentsSnapshotError", sub |-> s]

\* const [loading, setLoading] = true; (part_000 line 825): OurPurpose
\* destructures a boolean, which throws at its first render
PurposeRenders000 == FALSE

\* onClick={() => setView(v)} of part_000: the current view unmounts and v
\* renders; an error thrown by the render unmounts the whole tree, and the
\* cleanup of the running effect closes its listener
setView000(v) ==
  /\ Tick
  /\ ChildrenRendered(loadingAuth)
  /\ view # Crashed
  /\ v # view
  /\ FreshViewState
  /\ error' = Null
  /\ pending' = Orphan(pending)
  /\ IF v = "purpose" /\ ~PurposeRenders000
       THEN /\ view' = Crashed
            /\ loading' = TRUE
            /\ subs' = EffectCleanup(subs, TRUE)
       ELSE /\ view' = v
            /\ loading' = IF BinderActive000(isAuthenticated) THEN TRUE ELSE FALSE
            /\ subs' = EffectCleanup(subs, TRUE)
                         \cup EffectSubscribe000(v, isAuthenticated, steps + 1)
  /\ UNCHANGED <<session, store>>
  /\ lastOp' = [op |-> "setView", to |-> v, closed |-> UnsubscribeCalls(subs)]

\* the onSnapshot callback of OurJournal in part_000: setEntries(...) makes
\* the view render, and the effect runs again
onJournalSnapshot000(s) ==
  /\ Tick
  /\ s \in subs
  /\ s.path = "journal"
  /\ s.mounted
  /\ entries' = setEntries(entries, Fetched(OrderByDateDesc(journal_entries)))
  /\ RerenderView000(isAuthenticated, FALSE, error)
  /\ UNCHANGED <<session, isSubmitting, newEntryText, editingEntryId,
                 editEntryText, JournalOthers, store, pending>>
  /\ lastOp' = [op |-> "onJournalSnapshot", sub |-> s, hadLen |-> Len(entries)]

\* the onSnapshot error callback of OurJournal in part_000
onJournalSnapshotError000(s) ==
  /\ Tick
  /\ s \in subs
  /\ s.path = "journal"
  /\ s.mounted
  /\ RerenderView000(isAuthenticated, FALSE, ErrLoadJournal)
  /\ UNCHANGED <<session, isSubmitting, journalView, JournalOthers, store,
                 pending>>
  /\ lastOp' = [op |-> "onJournalSnapshotError", sub |-> s]

\* A process of part_000 starts with or without an auth handle.
Init000 ==
  /\ userId = Null
  /\ userName = <<>>
  /\ isAuthenticated = FALSE
  /\ loadingAuth = TRUE
  /\ showNameModal = FALSE
  /\ localStorage \in {[u \in Users |-> NoItem],
                       [u \in Users |-> IF u = "u1" THEN <<"n">> ELSE NoItem]}
  /\ signIn \in {"pending", NoAuthHandle}
  /\ listenerFired = FALSE
  /\ view = "moments"
  /\ loading = TRUE
  /\ error = Null
  /\ isSubmitting = FALSE
  /\ moments = <<>>
  /\ newMomentTitle = <<>>
  /\ newMomentDescription = <<>>
  /\ newMomentType = "star"
  /\ editingMomentId = NoId
  /\ editMomentTitle = <<>>
  /\ editMomentDescription = <<>>
  /\ editMomentType = "star"
  /\ entries = <<>>
  /\ newEntryText = <<>>
  /\ editingEntryId = NoId
  /\ editEntryText = <<>>
  /\ purposeText = <<>>
  /\ \E st \in InitialStores :
       /\ journey_moments = st.journey_moments
       /\ journal_entries = st.journal_entries
       /\ serverClock = st.serverClock
  /\ our_purpose = {}
  /\ steps = 0
  /\ pending = EmptyBag
  /\ subs = {}
  /\ lastOp = [op |-> "init"]

Next000 ==
  \/ \E ok \in BOOLEAN : authenticate000(ok)
  \/ authenticateLate000
  \/ \E user \in Users \cup {Null} : onAuthStateChanged000(user)
  \/ \E name \in NameInputs : handleSaveName000(name)
  \/ \E s \in subs : onMomentsSnapshot000(s)
  \/ \E s \in subs : onMomentsSnapshotError000(s)
  \/ \E v \in {"moments", "journal", "purpose"} : setView000(v)
  \/ \E s \in subs : onJournalSnapshot000(s)
  \/ \E s \in subs : onJournalSnapshotError000(s)

SpecPart000 == Init000 /\ [][Next000]_allvars

\* The sign-in promise of authenticate() settles.
SpecPart000Settling ==
  Init000 /\ [][Next000]_allvars
    /\ WF_allvars(\E ok \in BOOLEAN : authenticate000(ok))


\* ------------------------------------- the first version of AuthWrapper
\* App.js 31-100, the earlier copy of AuthWrapper: its authenticate() calls
\* signInAnonymously again in the catch block of the first attempt.  Here
\* signIn is "pending" while the first attempt is in flight, "fallback"
\* while the attempt of the catch block is, and "done" after the finally.

\* The first attempt settles: signInWithCustomToken when the environment
\* supplied __initial_auth_token (token), signInAnonymously otherwise.
authenticateFirstVersion(token, ok) ==
  /\ Tick
  /\ signIn = "pending"
  /\ IF ok
       THEN /\ signIn' = "done"
            /\ loadingAuth' = FALSE
            /\ AfterSessionChange(loadingAuth, isAuthenticated)
       ELSE /\ signIn' = "fallback"
            /\ UNCHANGED <<loadingAuth, view, loading, error, isSubmitting,
                           momentsView, journalView, purposeText, pending,
                           subs>>
  /\ UNCHANGED <<userId, userName, isAuthenticated, showNameModal,
                 localStorage, listenerFired, store>>
  /\ lastOp' = [op |-> "authenticate", closed |-> {},
                attempt |-> IF token THEN "token" ELSE "anonymous",
                ok |-> ok]

\* The signInAnonymously of the catch block settles; then the finally block.
authenticateFallback(ok) ==
  /\ Tick
  /\ signIn = "fallback"
  /\ signIn' = "done"
  /\ loadingAuth' = FALSE
  /\ AfterSessionChange(loadingAuth, isAuthenticated)
  /\ UNCHANGED <<userId, userName, isAuthenticated, showNameModal,
                 localStorage, listenerFired, store>>
  /\ lastOp' = [op |-> "authenticate", closed |-> {},
                attempt |-> "fallback", ok |-> ok]

NextFirstVersion ==
  \/ \E token \in BOOLEAN, ok \in BOOLEAN : authenticateFirstVersion(token, ok)
  \/ \E ok \in BOOLEAN : authenticateFallback(ok)
  \/ \E user \in Users \cup {Null} : onAuthStateChanged(user)
  \/ \E name \in NameInputs : handleSaveName(name)
  \/ \E s \in subs : onMomentsSnapshot(s)
  \/ \E s \in subs : onMomentsSnapshotError(s)

SpecFirstVersion == Init /\ [][NextFirstVersion]_allvars

\* ------------------------------------------ the rendering of a moment
\* JourneyMoments renders each listed moment with getIcon(moment.type) and
\* getTypeColor(moment.type).  The collection is shared (public/data), so a
\* fetched document may carry any type, or none, whatever this client's
\* <select> offers.  Icons are named by their code point.

\* moment.type of a record without that field
Undefined == "undefined"
TypeOf(m) == IF "type" \in DOMAIN m THEN m.type ELSE Undefined

\* switch (type) { case 'star': ...; default: ... }
getIcon(type) ==
  CASE type = "star" -> "U+2B50"
    [] type = "cloud" -> "U+2601"
    [] type = "milestone" -> "U+2705"
    [] OTHER -> "U+2728"

getTypeColor(type) ==
  CASE type = "star" -> "text-yellow-400"
    [] type = "cloud" -> "text-gray-400"
    [] type = "milestone" -> "text-green-400"
    [] OTHER -> "text-gray-300"

\* moments.map((moment) => <div className={... getTypeColor(moment.type)}>
\* ... {getIcon(moment.type)} ...): the list item of moments[k]
renderMoment(k) ==
  /\ Tick
  /\ Rendered("moments")
  /\ k \in DOMAIN moments
  /\ UNCHANGED <<session, view, loading, error, isSubmitting, momentsView,
                 journalView, purposeText, store, pending, subs>>
  /\ lastOp' = [op |-> "renderMoment", id |-> moments[k].id,
                type |-> TypeOf(moments[k]),
                icon |-> getIcon(TypeOf(moments[k])),
                color |-> getTypeColor(TypeOf(moments[k]))]

\* the types a stored moment may carry
StoredTypes == {"star", "cloud", "milestone", "heart", Undefined}

\* a moment written by any client of the shared collection
StoredMoment(u, now, type) ==
  [id |-> now,
   data |-> IF type = Undefined
              THEN [title |-> <<"a">>, description |-> <<>>, date |-> now,
                    addedBy |-> u, addedByName |-> Anonimo]
              ELSE [title |-> <<"a">>, description |-> <<>>, type |-> type,
                    date |-> now, addedBy |-> u, addedByName |-> Anonimo]]

\* The state after the first onAuthStateChanged(u1) callback has mounted
\* JourneyMoments over a collection that holds one or two moments.
InitMomentList ==
  /\ userId = "u1"
  /\ userName = <<>>
  /\ isAuthenticated = TRUE
  /\ loadingAuth = FALSE
  /\ showNameModal = TRUE
  /\ localStorage = [u \in Users |-> NoItem]
  /\ signIn = "pending"
  /\ listenerFired = TRUE
  /\ view = "moments"
  /\ loading = TRUE
  /\ error = Null
  /\ isSubmitting = FALSE
  /\ moments = <<>>
  /\ newMomentTitle = <<>>
  /\ newMomentDescription = <<>>
  /\ newMomentType = "star"
  /\ editingMomentId = NoId
  /\ editMomentTitle = <<>>
  /\ editMomentDescription = <<>>
  /\ editMomentType = "star"
  /\ entries = <<>>
  /\ newEntryText = <<>>
  /\ editingEntryId = NoId
  /\ editEntryText = <<>>
  /\ purposeText = <<>>
  /\ \E t1 \in StoredTypes, t2 \in StoredTypes \cup {"none"} :
       journey_moments =
         {StoredMoment("u1", 1, t1)}
           \cup (IF t2 = "none" THEN {} ELSE {StoredMoment("u2", 2, t2)})
  /\ journal_entries = {}
  /\ serverClock = 2
  /\ our_purpose = {}
  /\ steps = 0
  /\ pending = EmptyBag
  /\ subs = {Subscription("moments")}
  /\ lastOp = [op |-> "init"]

NextMomentList ==
  \/ \E s \in subs : onMomentsSnapshot(s)
  \/ \E k \in DOMAIN moments : renderMoment(k)
  \/ \E f \in NewMomentInputs : fillNewMomentForm(f)
  \/ addMoment
  \/ \E c \in BagToSet(pending), ok \in BOOLEAN : addMomentDone(c, ok)

SpecMomentList == InitMomentList /\ [][NextMomentList]_allvars

\* ------------------------------------------------- editing listed moments
\* JourneyMoments driven through the controls it renders: the pencil and the
\* bin of a moment in display mode, and the form of the moment in edit mode
\* (its inputs, its submit and its cancel button).

\* The state after the first onAuthStateChanged(u1) callback has mounted
\* JourneyMoments over a collection that holds two moments of u1 and one of
\* u2.
InitEditing ==
  /\ userId = "u1"
  /\ userName = <<>>
  /\ isAuthenticated = TRUE
  /\ loadingAuth = FALSE
  /\ showNameModal = TRUE
  /\ localStorage = [u \in Users |-> NoItem]
  /\ signIn = "pending"
  /\ listenerFired = TRUE
  /\ view = "moments"
  /\ loading = TRUE
  /\ error = Null
  /\ isSubmitting = FALSE
  /\ moments = <<>>
  /\ newMomentTitle = <<>>
  /\ newMomentDescription = <<>>
  /\ newMomentType = "star"
  /\ editingMomentId = NoId
  /\ editMomentTitle = <<>>
  /\ editMomentDescription = <<>>
  /\ editMomentType = "star"
  /\ entries = <<>>
  /\ newEntryText = <<>>
  /\ editingEntryId = NoId
  /\ editEntryText = <<>>
  /\ purposeText = <<>>
  /\ journey_moments = {EarlierMoment("u1", 1), EarlierMoment("u1", 2),
                        EarlierMoment("u2", 3)}
  /\ journal_entries = {}
  /\ serverClock = 3
  /\ our_purpose = {}
  /\ steps = 0
  /\ pending = EmptyBag
  /\ subs = {Subscription("moments")}
  /\ lastOp = [op |-> "init"]

NextEditing ==
  \/ \E user \in Users \cup {Null} : onAuthStateChanged(user)
  \/ \E s \in subs : onMomentsSnapshot(s)
  \/ \E k \in DOMAIN moments :
       /\ MomentControlsOffered(moments[k].id, moments[k].addedBy)
       /\ startEditingMoment(moments[k])
  \/ EditMomentFormRendered /\ cancelEditingMoment
  \/ \E f \in EditMomentInputs : fillEditMomentForm(f)
  \/ EditMomentFormRendered /\ updateMoment
  \/ \E c \in BagToSet(pending), ok \in BOOLEAN : updateMomentDone(c, ok)
  \/ \E k \in DOMAIN moments, yes \in BOOLEAN :
       /\ MomentControlsOffered(moments[k].id, moments[k].addedBy)
       /\ deleteMoment(moments[k].id, moments[k].addedBy, yes)
  \/ \E c \in BagToSet(pending), ok \in BOOLEAN : deleteMomentDone(c, ok)

SpecEditing == InitEditing /\ [][NextEditing]_allvars

\* ------------------------------------------------------------ properties
\* lastOp.op of the handlers that write to the store
DeleteHandlers == {"deleteMoment", "deleteEntry"}
CreateHandlers == {"addMoment", "addEntry"}
WriteHandlers ==
  CreateHandlers \cup DeleteHandlers
    \cup {"updateMoment", "updateEntry", "updatePurpose"}
SnapshotCallbacks ==
  {"onMomentsSnapshot", "onJournalSnapshot", "onPurposeSnapshot",
   "onMomentsSnapshotError", "onJournalSnapshotError",
   "onPurposeSnapshotError"}

\* empty, or nothing but whitespace
IsBlank(s) == \A i \in DOMAIN s : IsSpace(s[i])

\* the calls in flight of the mounted view that append or upsert
LiveAppends ==
  {c \in BagToSet(pending) : c.live /\ c.kind \in {"addDoc", "setDoc"}}

\* list shows exactly the documents docs, newest first
Shows(list, docs) ==
  /\ Len(list) = Cardinality(docs)
  /\ \A d \in docs :
       \E i \in DOMAIN list :
         /\ list[i].id = d.id
         /\ \A f \in DOMAIN d.data : list[i][f] = d.data[f]
  /\ \A i, j \in DOMAIN list : i < j => list[i].date >= list[j].date

\* C1: a Delete by a session that is signed out, or whose userId is not the
\* record's addedBy, issues no deleteDoc, shows no confirm prompt and sets the
\* permission-denied error; a deleteDoc is issued only by the record's creator.
C1_DeleteOnlyByCreator ==
  lastOp.op \in DeleteHandlers =>
    /\ (~isAuthenticated \/ userId # lastOp.addedById) =>
         /\ lastOp.issued = <<>>
         /\ ~lastOp.prompted
         /\ error = (IF lastOp.op = "deleteMoment" THEN ErrDeleteMomentDenied
                     ELSE ErrDeleteEntryDenied)
    /\ lastOp.issued # <<>> =>
         /\ isAuthenticated
         /\ userId = lastOp.addedById
         /\ lastOp.issued[1].kind = "deleteDoc"
         /\ lastOp.issued[1].id = lastOp.id

\* a signed-in user asked to delete another user's record
C1_DeniedToOtherUser ==
  /\ lastOp.op \in DeleteHandlers
  /\ isAuthenticated
  /\ userId # lastOp.addedById
  /\ lastOp.issued = <<>>

\* C2: while isSubmitting is true, invoking Create, Update or Delete issues
\* no store call.
C2_NoCallWhileSubmitting ==
  (lastOp.op \in WriteHandlers /\ lastOp.submitting) => lastOp.issued = <<>>

\* C3: a Create (or purpose upsert) submitted again before the first call has
\* completed issues nothing: the mounted view never has two addDoc or setDoc
\* calls in flight.
C3_OneAppendInFlight ==
  /\ Cardinality(LiveAppends) <= 1
  /\ \A c \in LiveAppends : CopiesIn(c, pending) = 1
  /\ (lastOp.op \in CreateHandlers \cup {"updatePurpose"} /\ lastOp.submitting)
       => lastOp.issued = <<>>

\* an otherwise acceptable Create submitted while the first is in flight
C3_SecondSubmitInFlight ==
  /\ lastOp.op = "addMoment"
  /\ lastOp.submitting
  /\ isAuthenticated
  /\ ~IsBlank(newMomentTitle)
  /\ \E c \in LiveAppends : c.by = "addMoment"

\* C4: a Create, Update, Delete or purpose upsert invoked while the session is
\* not authenticated issues no store write call.
C4_NoWriteUnauthenticated ==
  (lastOp.op \in WriteHandlers /\ ~isAuthenticated) => lastOp.issued = <<>>

\* a signed-out session submits a filled-in Create form
C4_SignedOutCreate ==
  /\ lastOp.op = "addMoment"
  /\ ~isAuthenticated
  /\ ~lastOp.submitting
  /\ ~IsBlank(newMomentTitle)

\* C5: the record a Create sends carries addedBy = userId, addedByName =
\* userName or the fallback name when userName is empty, and the
\* serverTimestamp() placeholder as date; stored records carry a server time.
C5_CreatorAndServerTime ==
  /\ (lastOp.op \in CreateHandlers /\ lastOp.issued # <<>>) =>
       LET f == lastOp.issued[1].fields
       IN /\ f.addedBy = userId
          /\ f.addedByName = (IF userName = <<>> THEN Anonimo ELSE userName)
          /\ f.date = ServerTimestamp
  /\ \A c \in BagToSet(pending) :
       c.kind = "addDoc" =>
         /\ c.fields.date = ServerTimestamp
         /\ c.fields.addedBy \in Users
         /\ c.fields.addedByName # <<>>
  /\ \A d \in journey_moments \cup journal_entries :
       /\ d.data.date \in 1..serverClock
       /\ d.data.addedBy \in Users

\* a Create by a user who has not chosen a name yet
C5_CreateWithoutName ==
  /\ lastOp.op = "addMoment"
  /\ lastOp.issued # <<>>
  /\ userName = <<>>

\* C6: a Create or Update whose title or text is empty or whitespace only
\* issues no call and leaves isSubmitting, the forms and the edit selection
\* as they were.
C6_BlankRejected ==
  [][/\ (lastOp'.op = "addMoment" /\ IsBlank(newMomentTitle)) =>
          UNCHANGED <<pending, isSubmitting, momentsForm, momentsEdit>>
     /\ (lastOp'.op = "updateMoment" /\ IsBlank(editMomentTitle)) =>
          UNCHANGED <<pending, isSubmitting, momentsForm, momentsEdit>>
     /\ (lastOp'.op = "addEntry" /\ IsBlank(newEntryText)) =>
          UNCHANGED <<pending, isSubmitting, journalView>>
     /\ (lastOp'.op = "updateEntry" /\ IsBlank(editEntryText)) =>
          UNCHANGED <<pending, isSubmitting, journalView>>]_allvars

\* an Update with a whitespace-only title that nothing else would reject
C6_WhitespaceUpdate ==
  /\ lastOp.op = "updateMoment"
  /\ editMomentTitle = <<" ">>
  /\ isAuthenticated
  /\ ~lastOp.submitting
  /\ editingMomentId # NoId
  /\ lastOp.issued = <<>>

\* C7: a listener is open only while the store handle exists and the session
\* is authenticated.
C7_SubscribedOnlyWhenActive ==
  subs # {} => (db /\ isAuthenticated)

\* a sign-out that found a listener open
C7_SignOutWhileSubscribed ==
  /\ lastOp.op = "onAuthStateChanged"
  /\ lastOp.user = Null
  /\ lastOp.closed # {}
  /\ subs = {}

\* C8: whenever the store handle is missing or the session is not
\* authenticated, the mounted view's list is empty and loading is false.
C8_InertViewIsEmpty ==
  (~loadingAuth /\ ~(db /\ isAuthenticated)) =>
    /\ moments = <<>>
    /\ entries = <<>>
    /\ ~loading

\* C9: after a snapshot is delivered to the mounted view, the list is exactly
\* the payload (the documents of the path, newest first), whatever the list
\* held before.
C9_ListIsLastPayload ==
  /\ (lastOp.op = "onMomentsSnapshot" /\ lastOp.sub.mounted) =>
       Shows(moments, journey_moments)
  /\ (lastOp.op = "onJournalSnapshot" /\ lastOp.sub.mounted) =>
       Shows(entries, journal_entries)

\* a snapshot that found more items in the list than it delivered
C9_ShorterPayload ==
  /\ lastOp.op = "onMomentsSnapshot"
  /\ lastOp.sub.mounted
  /\ moments # <<>>
  /\ lastOp.hadLen > Len(moments)

\* C10: a step that unmounts the view or ends its authentication closes every
\* open listener, which is then gone for good; only the listener of the running
\* effect of the mounted view ever delivers a snapshot or an error.
C10_TeardownClosesListener ==
  [][/\ (view' # view \/ (isAuthenticated /\ ~isAuthenticated')) =>
          /\ lastOp'.closed = subs
          /\ subs \cap subs' = {}
     /\ \A s \in subs' : s.active /\ s.mounted
     /\ Cardinality(subs') <= 1
     /\ lastOp'.op \in SnapshotCallbacks =>
          /\ lastOp'.sub \in subs
          /\ lastOp'.sub.active
          /\ lastOp'.sub.mounted]_allvars

\* a change of view that found a listener open
C10_UnmountWhileSubscribed ==
  /\ lastOp.op = "setView"
  /\ lastOp.closed # {}
  /\ lastOp.closed \cap subs = {}

\* C11: a step that activates a binder (a mount with the preconditions true,
\* or the preconditions turning true) opens exactly one listener, none being
\* open from before; a step that leaves the view and the preconditions as
\* they were opens none, so a delivered snapshot leaves the open listener as
\* it is; at most one listener is ever open.
C11_OneListenerPerActivation ==
  [][/\ Cardinality(subs') <= 1
     /\ (/\ ~loadingAuth' /\ isAuthenticated' /\ view' # Crashed
         /\ (loadingAuth \/ ~isAuthenticated \/ view' # view)) =>
          /\ Cardinality(subs') = 1
          /\ subs' \cap subs = {}
     /\ (/\ loadingAuth' = loadingAuth
         /\ isAuthenticated' = isAuthenticated
         /\ view' = view) =>
          subs' \subseteq subs
     /\ lastOp'.op \in {"onMomentsSnapshot", "onJournalSnapshot",
                        "onPurposeSnapshot"} =>
          subs' = subs]_allvars

\* a snapshot delivered to the mounted view, which keeps a listener open
C11_SnapshotDelivered ==
  /\ lastOp.op = "onMomentsSnapshot"
  /\ lastOp.sub.mounted
  /\ subs # {}

Completion ==
  \E c \in BagToSet(pending), ok \in BOOLEAN :
    \/ addMomentDone(c, ok)
    \/ updateMomentDone(c, ok)
    \/ deleteMomentDone(c, ok)
    \/ addEntryDone(c, ok)
    \/ updateEntryDone(c, ok)
    \/ deleteEntryDone(c, ok)
    \/ updatePurposeDone(c, ok)

SpecCompleting == Init /\ [][Next]_allvars /\ WF_allvars(Completion)

\* lastOp.op of the completions of Create, Update and the purpose upsert
SubmitCompletions ==
  {"addMomentDone", "updateMomentDone", "addEntryDone", "updateEntryDone",
   "updatePurposeDone"}

\* C13: when the call of a Create, Update or purpose upsert completes, with
\* success or failure, isSubmitting of the view that issued it is false; if
\* every call completes, isSubmitting = TRUE leads to isSubmitting = FALSE
\* (within the steps of the run).
C13_SubmittingReleased ==
  /\ []((lastOp.op \in SubmitCompletions /\ lastOp.live) => ~isSubmitting)
  /\ (isSubmitting /\ steps < MaxSteps) ~> (~isSubmitting \/ steps = MaxSteps)

\* a call that failed and released the flag
C13_FailedCallReleased ==
  /\ lastOp.op \in SubmitCompletions
  /\ lastOp.live
  /\ ~lastOp.ok
  /\ ~isSubmitting

\* C14: when the addDoc of a Create succeeds, the new-record fields of the
\* view are back at their defaults and the error is not touched; when it
\* fails, the error is the add-failure message and the fields are unchanged.
\* While the call is in flight the fields hold what was submitted.
C14_CreateOutcome ==
  /\ [](\A c \in LiveAppends :
          /\ c.by = "addMoment" =>
               /\ c.fields.title = Trim(newMomentTitle)
               /\ c.fields.description = Trim(newMomentDescription)
               /\ c.fields.type = newMomentType
          /\ c.by = "addEntry" => c.fields.text = Trim(newEntryText))
  /\ [][/\ (lastOp'.op = "addMomentDone" /\ steps' # steps /\ lastOp'.live) =>
             IF lastOp'.ok
               THEN /\ newMomentTitle' = <<>>
                    /\ newMomentDescription' = <<>>
                    /\ newMomentType' = "star"
                    /\ error' = error
               ELSE /\ error' = ErrAddMoment
                    /\ UNCHANGED momentsForm
        /\ (lastOp'.op = "addEntryDone" /\ steps' # steps /\ lastOp'.live) =>
             IF lastOp'.ok
               THEN newEntryText' = <<>> /\ error' = error
               ELSE error' = ErrAddEntry /\ newEntryText' = newEntryText
       ]_allvars

\* a Create of a journal entry that failed, the typed text still in the form
C14_FailedCreateKeepsText ==
  /\ lastOp.op = "addEntryDone"
  /\ lastOp.live
  /\ ~lastOp.ok
  /\ newEntryText # <<>>
  /\ error = ErrAddEntry

\* C15: when the updateDoc of an Update succeeds, the view is out of edit
\* mode (no editing id, edit fields at their defaults); when it fails, the
\* editing id and the edit fields are unchanged and the error is the
\* update-failure message.
C15_UpdateOutcome ==
  [][/\ (lastOp'.op = "updateMomentDone" /\ steps' # steps /\ lastOp'.live) =>
          IF lastOp'.ok
            THEN /\ editingMomentId' = NoId
                 /\ editMomentTitle' = <<>>
                 /\ editMomentDescription' = <<>>
                 /\ editMomentType' = "star"
            ELSE /\ UNCHANGED momentsEdit
                 /\ error' = ErrUpdateMoment
     /\ (lastOp'.op = "updateEntryDone" /\ steps' # steps /\ lastOp'.live) =>
          IF lastOp'.ok
            THEN editingEntryId' = NoId /\ editEntryText' = <<>>
            ELSE /\ UNCHANGED <<editingEntryId, editEntryText>>
                 /\ error' = ErrUpdateEntry
    ]_allvars

\* an Update of a moment that succeeded and left edit mode
C15_UpdateSucceeded ==
  /\ lastOp.op = "updateMomentDone"
  /\ lastOp.live
  /\ lastOp.ok
  /\ editingMomentId = NoId
  /\ \E d \in journey_moments : d.data.title = <<"b">>

\* the creator, creator name and creation time of a stored record
Provenance(d) == <<d.data.addedBy, d.data.addedByName, d.data.date>>

\* C16: every updateDoc call carries only the editable fields (title,
\* description, type of a moment; text of a journal entry), and no step
\* changes the creator, creator name or creation time of a stored record.
C16_ProvenanceImmutable ==
  /\ [](\A c \in BagToSet(pending) :
          c.kind = "updateDoc" =>
            /\ c.by = "updateMoment" =>
                 DOMAIN c.fields = {"title", "description", "type"}
            /\ c.by = "updateEntry" => DOMAIN c.fields = {"text"})
  /\ [][\A d \in journey_moments \cup journal_entries :
          \A e \in journey_moments' \cup journal_entries' :
            e.id = d.id => Provenance(e) = Provenance(d)]_allvars

\* an Update written to a journal entry that keeps its creation values
C16_EntryUpdated ==
  /\ lastOp.op = "updateEntryDone"
  /\ lastOp.ok
  /\ \E d \in journal_entries :
       /\ d.data.text = <<"b">>
       /\ d.data.date = d.id
       /\ d.data.addedByName = Anonimo

\* C17: neither the Delete handler nor the completion of its deleteDoc
\* changes the list of the view; a mounted view's list changes only when a
\* snapshot is delivered.
C17_ListChangesOnlyBySnapshot ==
  [][/\ lastOp'.op \in {"deleteMoment", "deleteMomentDone", "deleteEntry",
                        "deleteEntryDone"} =>
          UNCHANGED <<moments, entries>>
     /\ (moments' # moments /\ view' = view /\ ~loadingAuth) =>
          lastOp'.op = "onMomentsSnapshot"
     /\ (entries' # entries /\ view' = view /\ ~loadingAuth) =>
          lastOp'.op = "onJournalSnapshot"]_allvars

\* a deleteDoc that succeeded while the list still shows the record
C17_DeletedStillListed ==
  /\ lastOp.op = "deleteMomentDone"
  /\ lastOp.ok
  /\ lastOp.live
  /\ \E k \in DOMAIN moments :
       \A d \in journey_moments : d.id # moments[k].id

\* C18: a Delete that passed the ownership check issues a deleteDoc exactly
\* when window.confirm returned yes; when it returned no, no call is issued
\* and the store is unchanged.
C18_DeleteNeedsConfirmation ==
  [][(lastOp'.op \in DeleteHandlers /\ steps' # steps /\ lastOp'.prompted) =>
       IF lastOp'.confirmed
         THEN /\ BagCardinality(pending') = BagCardinality(pending) + 1
              /\ lastOp'.issued # <<>>
              /\ lastOp'.issued[1].kind = "deleteDoc"
              /\ BagIn(lastOp'.issued[1], pending')
         ELSE /\ pending' = pending
              /\ lastOp'.issued = <<>>
              /\ UNCHANGED store]_allvars

\* the creator declined the confirmation prompt
C18_DeleteDeclined ==
  /\ lastOp.op \in DeleteHandlers
  /\ lastOp.prompted
  /\ ~lastOp.confirmed
  /\ isAuthenticated
  /\ userId = lastOp.addedById

\* C19: sign-in is attempted once at startup; one more attempt, anonymous, is
\* made only after a failed token attempt; a failed anonymous attempt is
\* followed by no attempt, and after the last attempt none is made.
C19_NoSignInRetry ==
  [][/\ (signIn' = "fallback" /\ signIn # "fallback") =>
          (lastOp'.attempt = "token" /\ ~lastOp'.ok)
     /\ signIn = "fallback" => signIn' \in {"fallback", "done"}
     /\ signIn = "done" => signIn' = "done"
     /\ (lastOp'.op = "authenticate" /\ steps' # steps
         /\ lastOp'.attempt \in {"anonymous", "fallback"}) =>
          signIn' = "done"]_allvars

\* an anonymous first attempt failed
C19_AnonymousFailed ==
  /\ lastOp.op = "authenticate"
  /\ lastOp.attempt = "anonymous"
  /\ ~lastOp.ok

\* C20: loadingAuth becomes false in every execution in which the sign-in
\* settles, and it is false after the first auth callback, after a sign-in
\* that succeeded, after one that failed, and when there is no auth handle.
C20_LoadingAuthReleased ==
  /\ <>(~loadingAuth)
  /\ [](lastOp.op \in {"authenticate", "onAuthStateChanged"} => ~loadingAuth)

\* a sign-in that failed before any auth callback, the loading screen gone
C20_FailedSignInReleased ==
  /\ lastOp.op = "authenticate"
  /\ ~lastOp.ok
  /\ signIn = "done"
  /\ ~listenerFired
  /\ ~loadingAuth

\* lastOp.op of the handlers and callbacks of AppContent and its views
ContentHandlers ==
  WriteHandlers \cup SubmitCompletions \cup SnapshotCallbacks
    \cup {"setView", "onChange", "deleteMomentDone", "deleteEntryDone",
           "startEditingMoment", "cancelEditingMoment", "startEditingEntry",
           "cancelEditingEntry", "handleSaveName"}

\* C21: while loadingAuth is true no content view is mounted (no handler of
\* AppContent or of a view runs) and no listener is open; a step that opens a
\* listener ends with loadingAuth false and with the session authenticated by
\* an onAuthStateChanged callback that reported a user.
C21_NothingBeforeAuthResolves ==
  /\ [](loadingAuth => (subs = {} /\ lastOp.op \notin ContentHandlers))
  /\ [][subs' \ subs # {} =>
          /\ ~loadingAuth'
          /\ isAuthenticated'
          /\ listenerFired'
          /\ userId' \in Users]_allvars

\* the first signed-in callback arrives after authenticate() released the
\* flag, and the mounted view subscribes
C21_SubscribedAfterSignIn ==
  /\ lastOp.op = "onAuthStateChanged"
  /\ lastOp.wasMounted
  /\ lastOp.user \in Users
  /\ signIn = "done"
  /\ subs # {}

\* C22: an onAuthStateChanged callback that reports user u leaves userId = u
\* and isAuthenticated true.  If localStorage holds a non-empty name under
\* u's key, userName becomes that name and the callback leaves showNameModal
\* as it was; otherwise showNameModal is true, and the content view is
\* mounted all the same, with a listener opened if the session was signed out.
C22_SignedInCallback ==
  [][(lastOp'.op = "onAuthStateChanged" /\ steps' # steps
      /\ lastOp'.user \in Users) =>
       LET u == lastOp'.user
       IN /\ userId' = u
          /\ isAuthenticated'
          /\ IF localStorage[u] # NoItem /\ ~IsBlank(localStorage[u])
               THEN /\ userName' = localStorage[u]
                    /\ showNameModal' = showNameModal
               ELSE /\ showNameModal'
                    /\ ~loadingAuth'
                    /\ view' \in {"moments", "journal", "purpose"}
                    /\ ~isAuthenticated =>
                         \E s \in subs' :
                           s.path = view' /\ s.active /\ s.mounted]_allvars

\* a user who saved a name signs in again: the name is back, no prompt
C22_StoredNameRestored ==
  /\ lastOp.op = "onAuthStateChanged"
  /\ lastOp.user \in Users
  /\ localStorage[lastOp.user] # NoItem
  /\ userName = localStorage[lastOp.user]
  /\ ~showNameModal

\* C23: after an onAuthStateChanged callback that reports no user, userId is
\* null, userName is empty, isAuthenticated is false and showNameModal is
\* false, whatever they were.
C23_SignedOutCallback ==
  (lastOp.op = "onAuthStateChanged" /\ lastOp.user = Null) =>
    /\ userId = Null
    /\ userName = <<>>
    /\ ~isAuthenticated
    /\ ~showNameModal

\* a sign-out that found the name prompt open
C23_PromptDismissed ==
  /\ lastOp.op = "onAuthStateChanged"
  /\ lastOp.user = Null
  /\ lastOp.hadPrompt
  /\ ~showNameModal

\* C24: submitting a name that is not blank in the name prompt leaves
\* userName = trim(name), stores trim(name) under the key of userId and
\* closes the prompt; a blank name changes nothing.  The prompt is open only
\* for a signed-in user, localStorage changes in no other way, and a later
\* signed-in callback for a user with a stored name leaves userName equal to
\* the stored name and opens no prompt.
C24_NameRoundTrip ==
  /\ [][(lastOp'.op = "handleSaveName" /\ steps' # steps) =>
          IF IsBlank(lastOp'.name)
            THEN UNCHANGED <<session, view, loading, error, isSubmitting,
                             momentsView, journalView, purposeText, store,
                             pending, subs>>
            ELSE /\ userName' = Trim(lastOp'.name)
                 /\ localStorage' =
                      [localStorage EXCEPT ![userId] = Trim(lastOp'.name)]
                 /\ ~showNameModal'
                 /\ UNCHANGED <<userId, isAuthenticated>>]_allvars
  /\ [][localStorage' # localStorage => lastOp'.op = "handleSaveName"]_allvars
  /\ [](showNameModal => (isAuthenticated /\ userId \in Users))
  /\ []((/\ lastOp.op = "onAuthStateChanged"
          /\ lastOp.user \in Users
          /\ localStorage[lastOp.user] # NoItem) =>
           /\ userName = localStorage[lastOp.user]
           /\ ~IsBlank(userName)
           /\ ~IsSpace(Head(userName))
           /\ lastOp.hadPrompt = showNameModal)

\* a name typed with a leading space was saved trimmed
C24_NameSaved ==
  /\ lastOp.op = "handleSaveName"
  /\ lastOp.name = <<" ", "n">>
  /\ userName = <<"n">>
  /\ userId \in Users
  /\ localStorage[userId] = <<"n">>
  /\ ~showNameModal

\* C25: when a Create, Update, Delete or purpose upsert issues its store
\* call, and when a Delete is declined at the confirmation prompt, the error
\* of the view is empty, whatever an earlier operation or a failed listener
\* left in it.
C25_ErrorClearedOnAttempt ==
  (/\ lastOp.op \in WriteHandlers
   /\ \/ lastOp.issued # <<>>
      \/ (lastOp.op \in DeleteHandlers /\ lastOp.prompted
             /\ ~lastOp.confirmed)) =>
    error = Null

\* a Delete declined at the prompt, in a view that showed an error
C25_DeclinedDeleteClearsError ==
  /\ lastOp.op \in DeleteHandlers
  /\ lastOp.prompted
  /\ ~lastOp.confirmed
  /\ lastOp.hadError # Null
  /\ error = Null

\* C26: opening the purpose view mounts it (the view is 'purpose', with no
\* error, and with a listener when the session is authenticated); a
\* notification that finds no purpose document leaves purposeText empty and
\* loading false and raises no error.
C26_PurposeViewOpens ==
  /\ []((lastOp.op = "setView" /\ lastOp.to = "purpose") =>
          /\ view = "purpose"
          /\ error = Null
          /\ purposeText = <<>>
          /\ isAuthenticated =>
               \E s \in subs : s.path = "purpose" /\ s.active /\ s.mounted)
  /\ [][(/\ lastOp'.op = "onPurposeSnapshot" /\ steps' # steps
          /\ lastOp'.sub.mounted /\ our_purpose = {}) =>
           /\ purposeText' = <<>>
           /\ ~loading'
           /\ error' = error
           /\ view' = "purpose"]_allvars

\* an authenticated session opened the purpose view; nothing was ever
\* written to the purpose document
C26_PurposeOpenedNoDocument ==
  /\ lastOp.op = "setView"
  /\ lastOp.to = "purpose"
  /\ isAuthenticated
  /\ our_purpose = {}

\* lastOp.op of the completions of the store calls
CallCompletions == SubmitCompletions \cup {"deleteMomentDone", "deleteEntryDone"}

\* the view whose handler issued the call that a completion settles
ViewOfCompletion(op) ==
  IF op \in {"addMomentDone", "updateMomentDone", "deleteMomentDone"}
    THEN "moments"
  ELSE IF op = "updatePurposeDone" THEN "purpose"
  ELSE "journal"

\* the state of AuthWrapper, AppContent and the mounted view
MountedState ==
  <<session, view, loading, error, isSubmitting, momentsView, journalView,
    purposeText, subs>>

\* C27: a change of view keeps every call in flight; a call whose view has
\* unmounted still completes (it leaves the calls in flight, and a successful
\* addDoc still adds its document), and its completion changes nothing of the
\* session or of the view mounted at that time, be it of another kind or a
\* new mount of the same kind.
C27_LateCompletionIsInert ==
  [][/\ view' # view =>
          BagCardinality(pending') = BagCardinality(pending)
     /\ (lastOp'.op \in CallCompletions /\ steps' # steps) =>
          /\ BagCardinality(pending') = BagCardinality(pending) - 1
          /\ (~lastOp'.live \/ view # ViewOfCompletion(lastOp'.op)) =>
               /\ UNCHANGED MountedState
               /\ (lastOp'.op = "addMomentDone" /\ lastOp'.ok) =>
                    Cardinality(journey_moments') =
                      Cardinality(journey_moments) + 1
               /\ (lastOp'.op = "addEntryDone" /\ lastOp'.ok) =>
                    Cardinality(journal_entries') =
                      Cardinality(journal_entries) + 1]_allvars

\* a Create issued by a JourneyMoments that has unmounted fails while a new
\* JourneyMoments is mounted, whose error stays empty
C27_LateFailureSameKind ==
  /\ lastOp.op = "addMomentDone"
  /\ ~lastOp.live
  /\ ~lastOp.ok
  /\ ~loadingAuth
  /\ view = "moments"
  /\ error = Null

\* C28: a new-moment form starts with type star and is back at star after a
\* Create that succeeded; every fetched moment is listed and rendered, and
\* one whose type is missing or is not star, cloud or milestone is rendered
\* with the icon and the colour of a star moment.
C28_StarIsDefaultType ==
  /\ [](lastOp.op \in {"init", "setView"} => newMomentType = "star")
  /\ []((lastOp.op = "addMomentDone" /\ lastOp.ok /\ lastOp.live) =>
          newMomentType = "star")
  /\ []((lastOp.op = "onMomentsSnapshot" /\ lastOp.sub.mounted) =>
          Len(moments) = Cardinality(journey_moments))
  /\ []((lastOp.op = "renderMoment"
          /\ lastOp.type \notin {"star", "cloud", "milestone"}) =>
           /\ lastOp.icon = "U+2B50"
           /\ lastOp.color = "text-yellow-400")

\* a listed moment without a type field was rendered
C28_UntypedMomentRendered ==
  /\ lastOp.op = "renderMoment"
  /\ lastOp.type = Undefined
  /\ \E k \in DOMAIN moments :
       moments[k].id = lastOp.id /\ "type" \notin DOMAIN moments[k]

\* lastOp.op of the handlers that the controls of a listed record call
RecordControlHandlers ==
  {"startEditingMoment", "deleteMoment", "startEditingEntry", "deleteEntry"}

\* C29: the edit and delete controls of a listed record (shown in display
\* mode) are rendered exactly when isAuthenticated is true and userId equals
\* the record's addedBy; so a handler called from a rendered control enters
\* edit mode, or gets past the ownership check of Delete, only for a record
\* the session created.
C29_ControlsOnlyForCreator ==
  [][(lastOp'.op \in RecordControlHandlers /\ steps' # steps) =>
       LET own == isAuthenticated /\ userId = lastOp'.addedById
           shown == /\ ~loading
                    /\ lastOp'.id #
                         (IF lastOp'.op \in {"startEditingMoment", "deleteMoment"}
                            THEN editingMomentId ELSE editingEntryId)
       IN /\ lastOp'.offered <=> (own /\ shown)
          /\ (lastOp'.offered /\ lastOp'.op = "startEditingMoment") =>
               /\ editingMomentId' = lastOp'.id
               /\ \E k \in DOMAIN moments :
                    moments[k].id = lastOp'.id /\ moments[k].addedBy = userId
          /\ (lastOp'.offered /\ lastOp'.op = "startEditingEntry") =>
               /\ editingEntryId' = lastOp'.id
               /\ \E k \in DOMAIN entries :
                    entries[k].id = lastOp'.id /\ entries[k].addedBy = userId
          /\ (lastOp'.offered /\ lastOp'.op \in DeleteHandlers) =>
               lastOp'.prompted]_allvars

\* the creator of a listed moment used its pencil control
C29_CreatorStartedEditing ==
  /\ lastOp.op = "startEditingMoment"
  /\ lastOp.offered
  /\ editingMomentId = lastOp.id
  /\ userId = lastOp.addedById

\* C30: when the deleteDoc of a Delete fails, the error of the view that
\* issued it becomes the delete-failure message and nothing else changes:
\* the lists, the forms, the editing ids, isSubmitting, loading, the session,
\* the listeners and the store, where the target record still is if it was.
C30_DeleteFailureOnlySetsError ==
  [][(lastOp'.op \in {"deleteMomentDone", "deleteEntryDone"}
      /\ steps' # steps /\ ~lastOp'.ok) =>
       /\ UNCHANGED <<session, view, loading, isSubmitting, momentsView,
                      journalView, purposeText, store, subs>>
       /\ lastOp'.live =>
            error' = (IF lastOp'.op = "deleteMomentDone" THEN ErrDeleteMoment
                      ELSE ErrDeleteEntry)
       /\ ~lastOp'.live => error' = error]_allvars

\* a Delete of a listed moment failed: the moment is still listed and stored
C30_DeleteFailed ==
  /\ lastOp.op = "deleteMomentDone"
  /\ ~lastOp.ok
  /\ lastOp.live
  /\ error = ErrDeleteMoment
  /\ DocExists(journey_moments, lastOp.id)
  /\ \E k \in DOMAIN moments : moments[k].id = lastOp.id

\* the call that the step settles
Settled == CHOOSE c \in BagToSet(pending) : pending' = Settle(pending, c)

\* C31: an Update that succeeds leaves the record holding the submitted
\* values; an Update whose values the record already holds (the second of two
\* identical Updates) leaves the store as it was, and the view after its
\* completion is as after the first: out of edit mode, not submitting, the
\* error untouched.
C31_UpdateIdempotent ==
  [][(lastOp'.op \in {"updateMomentDone", "updateEntryDone"}
      /\ steps' # steps /\ lastOp'.ok) =>
       LET c == Settled
           docs == IF c.by = "updateMoment" THEN journey_moments
                   ELSE journal_entries
           docsAfter == IF c.by = "updateMoment" THEN journey_moments'
                        ELSE journal_entries'
       IN /\ Holds(docsAfter, c.id, c.fields)
          /\ {d.id : d \in docsAfter} = {d.id : d \in docs}
          /\ Holds(docs, c.id, c.fields) => UNCHANGED store
          /\ lastOp'.live =>
               /\ ~isSubmitting'
               /\ error' = error
               /\ editingMomentId' = NoId /\ editMomentTitle' = <<>>
               /\ editingEntryId' = NoId /\ editEntryText' = <<>>]_allvars

\* an Update succeeded on a record that already held the submitted values
C31_SameValuesAgain ==
  /\ lastOp.op = "updateMomentDone"
  /\ lastOp.ok
  /\ lastOp.live
  /\ lastOp.held
  /\ editingMomentId = NoId

\* C32: in every state isAuthenticated is true exactly when userId is not
\* null, and userName is non-empty only when isAuthenticated is true.
C32_SessionConsistent ==
  /\ isAuthenticated <=> userId # Null
  /\ userName # <<>> => isAuthenticated

\* a user who had saved a name signed out
C32_NamedUserSignedOut ==
  /\ lastOp.op = "onAuthStateChanged"
  /\ lastOp.user = Null
  /\ lastOp.wasMounted
  /\ \E u \in Users : localStorage[u] # NoItem
  /\ userName = <<>>
  /\ userId = Null

\* C33: whenever the session is authenticated, userName is empty or is the
\* name stored in localStorage under the current userId, and the name prompt
\* is open only while userName is empty.
C33_NameBelongsToUser ==
  isAuthenticated =>
    /\ userName = <<>> \/ userName = localStorage[userId]
    /\ showNameModal => userName = <<>>

\* a signed-in callback for a user without a stored name, in a session that
\* shows a name
C33_SwitchedToUnnamedUser ==
  /\ lastOp.op = "onAuthStateChanged"
  /\ lastOp.user \in Users
  /\ lastOp.wasMounted
  /\ localStorage[lastOp.user] = NoItem
  /\ userName # <<>>

\* C34: once loadingAuth is false it stays false; an auth callback or the
\* completion of the sign-in that finds it false leaves the mounted view
\* mounted, with its lists, forms and calls in flight as they were.
C34_LoadingAuthMonotone ==
  [][/\ ~loadingAuth => ~loadingAuth'
     /\ (/\ ~loadingAuth /\ steps' # steps
         /\ lastOp'.op \in {"authenticate", "onAuthStateChanged"}) =>
          /\ view' = view
          /\ UNCHANGED <<isSubmitting, momentsView, journalView, purposeText,
                         pending>>]_allvars

\* a sign-out reached a view that shows its list
C34_SignOutKeepsViewMounted ==
  /\ lastOp.op = "onAuthStateChanged"
  /\ lastOp.user = Null
  /\ lastOp.wasMounted
  /\ ~loadingAuth
  /\ moments # <<>>

\* C35: when the Update call of one moment completes while the edit form of
\* another moment is open, that edit selection and its fields stay as they
\* are.
C35_OtherEditSurvivesUpdate ==
  [][(/\ steps' # steps
      /\ lastOp'.op = "updateMomentDone"
      /\ lastOp'.live
      /\ editingMomentId \notin {NoId, lastOp'.id}) =>
       UNCHANGED momentsEdit]_allvars

\* the update of one moment succeeded while another was being edited
C35_UpdateDoneDuringOtherEdit ==
  /\ lastOp.op = "updateMomentDone"
  /\ lastOp.live
  /\ lastOp.ok
  /\ lastOp.editing \notin {NoId, lastOp.id}

\* C36: every Update call that is issued targets a record whose creator is
\* the user signed in at that moment.
C36_UpdateTargetsOwnRecord ==
  (lastOp.op = "updateMoment" /\ lastOp.issued # <<>>) =>
    \A d \in journey_moments :
      d.id = lastOp.issued[1].id => d.data.addedBy = userId

\* an Update call was issued after the signed-in user changed
C36_UpdateIssuedAfterUserChange ==
  /\ lastOp.op = "updateMoment"
  /\ lastOp.issued # <<>>
  /\ userId = "u2"
  /\ DocExists(journey_moments, lastOp.issued[1].id)

\* C40: the editing id is absent or the id of a record of the local list,
\* also after a notification that no longer carries the edited record.
C40_EditingIdIsListed ==
  \/ editingMomentId = NoId
  \/ \E k \in DOMAIN moments : moments[k].id = editingMomentId

\* a notification with fewer records arrived while a moment was edited
C40_ListShrankWhileEditing ==
  /\ lastOp.op = "onMomentsSnapshot"
  /\ lastOp.sub.mounted
  /\ Len(moments) < lastOp.hadLen
  /\ editingMomentId # NoId

\* the calls in flight of the mounted view that a submit handler issued
LiveSubmits ==
  {c \in BagToSet(pending) :
     /\ c.live
     /\ c.by \in {"addMoment", "updateMoment", "addEntry", "updateEntry",
                  "updatePurpose"}}

\* C37: isSubmitting of the mounted view is true exactly when a Create,
\* Update or purpose upsert it issued is in flight, and at most one such
\* call is in flight at a time.
C37_SubmittingIffOneInFlight ==
  /\ isSubmitting <=> LiveSubmits # {}
  /\ Cardinality(LiveSubmits) <= 1
  /\ \A c \in LiveSubmits : CopiesIn(c, pending) = 1

\* a submit of the edit form was turned down while a call was in flight
C37_UpdateTurnedDownWhileSubmitting ==
  /\ lastOp.op = "updateMoment"
  /\ lastOp.submitting
  /\ lastOp.issued = <<>>
  /\ isSubmitting
  /\ LiveSubmits # {}
  /\ editingMomentId # NoId
  /\ Trim(editMomentTitle) # <<>>

\* the messages of the onSnapshot error callbacks
LoadErrors == {ErrLoadMoments, ErrLoadJournal, ErrLoadPurpose}

\* the mounted view has no open listener
NoWorkingSubscription == ~\E s \in subs : s.mounted /\ s.active

\* C38: once a listener of the mounted view has failed, error stays set for
\* as long as the view has no open listener; a Create, Update or Delete
\* attempt in between does not empty it.
C38_LoadErrorStaysSet ==
  [][(/\ Mounted(view)
      /\ error \in LoadErrors
      /\ NoWorkingSubscription
      /\ NoWorkingSubscription'
      /\ view' = view) => error' # Null]_allvars

\* a Create went ahead after the listener of the moments view had failed
C38_CreateAfterLoadError ==
  /\ lastOp.op = "addMoment"
  /\ lastOp.issued # <<>>
  /\ lastOp.hadError = ErrLoadMoments
  /\ NoWorkingSubscription

\* t is s without the spaces at its two ends
IsTrimOf(t, s) ==
  /\ t = <<>> \/ (~IsSpace(t[1]) /\ ~IsSpace(t[Len(t)]))
  /\ \E i \in 0..Len(s) :
       /\ i + Len(t) <= Len(s)
       /\ SubSeq(s, i + 1, i + Len(t)) = t
       /\ \A k \in DOMAIN s : (k <= i \/ k > i + Len(t)) => IsSpace(s[k])

\* C39: a notification of the purpose view sets purposeText to the text of
\* the document, or to the empty text when there is no document or no text,
\* whatever the textarea held; an upsert sends purposeText without the
\* spaces at its ends; the completion of an upsert leaves purposeText as it
\* is.
C39_PurposeTextFollowsDocument ==
  [][/\ (/\ steps' # steps
          /\ lastOp'.op = "onPurposeSnapshot"
          /\ lastOp'.sub.mounted) =>
           /\ our_purpose = {} => purposeText' = <<>>
           /\ \A d \in our_purpose :
                purposeText' = IF "text" \in DOMAIN d.data
                                 THEN d.data.text ELSE <<>>
     /\ (/\ steps' # steps
          /\ lastOp'.op = "updatePurpose"
          /\ lastOp'.issued # <<>>) =>
           /\ IsTrimOf(lastOp'.issued[1].fields.text, purposeText)
           /\ purposeText' = purposeText
     /\ (steps' # steps /\ lastOp'.op = "updatePurposeDone") =>
           purposeText' = purposeText]_allvars

\* a notification emptied a textarea that held text never saved
C39_UnsavedEditsOverwritten ==
  /\ lastOp.op = "onPurposeSnapshot"
  /\ lastOp.sub.mounted
  /\ lastOp.hadLen > 0
  /\ our_purpose = {}
  /\ purposeText = <<>>

====
